---- MODULE Spec2Model ----
(***************************************************************************)
(* Model of the denoising prefilter kernels (kernel_filter_divide_shadow,  *)
(* kernel_filter_get_feature, kernel_filter_combine_halves and             *)
(* kernel_filter_non_local_means).                                         *)
(*                                                                         *)
(* C `float` values are modelled as binary floating point numbers with a   *)
(* MantBits-bit significand and round-to-nearest-even, written <<m, e>>    *)
(* for the value m * 2^e with m = 0 or 2^(MantBits-1) <= |m| < 2^MantBits. *)
(* The exponent range is not bounded (no overflow, no subnormals); the     *)
(* result of a division by zero is the single value NaN, which every       *)
(* operation propagates.                                                   *)
(***************************************************************************)
EXTENDS Integers, Sequences, FiniteSets, TLC

(***************************************************************************)
(* Integer helpers                                                         *)
(***************************************************************************)
Max(a, b) == IF a > b THEN a ELSE b

Min(a, b) == IF a < b THEN a ELSE b

Abs(a) == IF a < 0 THEN -a ELSE a

Sgn(a) == IF a < 0 THEN -1 ELSE IF a > 0 THEN 1 ELSE 0

Pow2(n) == 2^n

\* number of bits of n, for 1 <= n < 2^31
BitLen(n) ==
    IF n >= Pow2(30) THEN 31
    ELSE CHOOSE k \in 1..30 : Pow2(k - 1) <= n /\ n < Pow2(k)

\* align_up(x, 4): x rounded up to the next multiple of 4
align_up(x, alignment) == ((x + alignment - 1) \div alignment) * alignment

(***************************************************************************)
(* float arithmetic                                                        *)
(***************************************************************************)
\* significand width of a C float
MantBits == 24

\* extra low bits kept while an inexact result is rounded
GuardBits == 30 - MantBits

HalfBits == MantBits \div 2

FZero == <<0, 0>>

NaN == <<0, 1>>

\* the float nearest to sgn * (mag + t) * 2^e, where 0 < t < 1 if sticky and
\* t = 0 otherwise; a sticky mag has at least MantBits + 2 bits
FRound(sgn, mag, e, sticky) ==
    IF mag = 0 THEN FZero
    ELSE LET n == BitLen(mag) IN
         IF n <= MantBits
         THEN <<sgn * mag * Pow2(MantBits - n), e - (MantBits - n)>>
         ELSE LET s    == n - MantBits
                  q    == mag \div Pow2(s)
                  rem  == mag % Pow2(s)
                  half == Pow2(s - 1)
                  up   == rem > half \/ (rem = half /\ (sticky \/ q % 2 = 1))
                  q1   == IF up THEN q + 1 ELSE q
              IN IF q1 = Pow2(MantBits)
                 THEN <<sgn * Pow2(MantBits - 1), e + s + 1>>
                 ELSE <<sgn * q1, e + s>>

\* (float)i for an int i
FromInt(i) == FRound(Sgn(i), Abs(i), 0, FALSE)

\* i / 2^k as a float
FromScaled(i, k) == FRound(Sgn(i), Abs(i), -k, FALSE)

FNeg(x) == IF x = NaN THEN NaN ELSE <<-x[1], x[2]>>

\* x + y where x has the larger (or the same) exponent and neither is zero
FAddOrdered(x, y) ==
    LET d == x[2] - y[2] IN
    IF d <= GuardBits
    THEN LET M == x[1] * Pow2(d) + y[1]
         IN FRound(Sgn(M), Abs(M), y[2], FALSE)
    ELSE LET X      == Abs(x[1]) * Pow2(GuardBits)
             sh     == d - GuardBits
             gone   == sh > MantBits
             yq     == IF gone THEN 0 ELSE Abs(y[1]) \div Pow2(sh)
             sticky == gone \/ (Abs(y[1]) % Pow2(sh) # 0)
             mag    == IF Sgn(x[1]) = Sgn(y[1])
                       THEN X + yq
                       ELSE X - yq - (IF sticky THEN 1 ELSE 0)
         IN FRound(Sgn(x[1]), mag, x[2] - GuardBits, sticky)

FAdd(x, y) ==
    IF x = NaN \/ y = NaN THEN NaN
    ELSE IF x[1] = 0 THEN y
    ELSE IF y[1] = 0 THEN x
    ELSE IF x[2] >= y[2] THEN FAddOrdered(x, y)
    ELSE FAddOrdered(y, x)

FSub(x, y) == FAdd(x, FNeg(y))

FMul(x, y) ==
    IF x = NaN \/ y = NaN THEN NaN
    ELSE IF x[1] = 0 \/ y[1] = 0 THEN FZero
    ELSE LET B   == Pow2(HalfBits)
             a   == Abs(x[1]) \div B
             b   == Abs(x[1]) % B
             c   == Abs(y[1]) \div B
             d   == Abs(y[1]) % B
             mid == a * d + b * c
             low == (mid % B) * B + b * d
             hi  == a * c + (mid \div B) + (low \div Pow2(MantBits))
             lo  == low % Pow2(MantBits)
             cut == MantBits - GuardBits
         IN FRound(Sgn(x[1]) * Sgn(y[1]),
                   hi * Pow2(GuardBits) + (lo \div Pow2(cut)),
                   x[2] + y[2] + cut,
                   lo % Pow2(cut) # 0)

\* k more quotient bits of rem / den, rem < den: <<quotient, remainder>>
RECURSIVE DivBits(_, _, _, _)
DivBits(rem, den, k, q) ==
    IF k = 0 THEN <<q, rem>>
    ELSE LET r2  == 2 * rem
             bit == IF r2 >= den THEN 1 ELSE 0
         IN DivBits(r2 - bit * den, den, k - 1, 2 * q + bit)

FDiv(x, y) ==
    IF x = NaN \/ y = NaN THEN NaN
    ELSE IF y[1] = 0 THEN NaN
    ELSE IF x[1] = 0 THEN FZero
    ELSE LET n  == Abs(x[1])
             d  == Abs(y[1])
             qr == DivBits(n % d, d, MantBits + 2, n \div d)
         IN FRound(Sgn(x[1]) * Sgn(y[1]), qr[1], x[2] - y[2] - (MantBits + 2),
                   qr[2] # 0)

\* x < y
FLt(x, y) ==
    IF x = NaN \/ y = NaN THEN FALSE
    ELSE IF Sgn(x[1]) # Sgn(y[1]) THEN Sgn(x[1]) < Sgn(y[1])
    ELSE IF x[1] = 0 THEN FALSE
    ELSE IF x[1] > 0 THEN x[2] < y[2] \/ (x[2] = y[2] /\ x[1] < y[1])
    ELSE x[2] > y[2] \/ (x[2] = y[2] /\ x[1] < y[1])

FLe(x, y) == x # NaN /\ y # NaN /\ ~FLt(y, x)

\* max(a, b) and min(a, b) on floats: (a > b) ? a : b and (a < b) ? a : b
FMax(a, b) == IF FLt(b, a) THEN a ELSE b

FMin(a, b) == IF FLt(a, b) THEN a ELSE b

F1 == FromInt(1)

\* 0.5f
FHalf == FromScaled(1, 1)

\* 1e-7f
FEps == <<14073749, -47>>

\* fast_expf(x): e^x computed as 2^(x * log2(e)), the exponent clamped to
\* [-126, 126], the power of the fractional part interpolated linearly
FLog2E == <<12102203, -23>>

FFloor(y) ==
    IF y[2] >= 0 THEN y[1] * Pow2(y[2])
    ELSE IF -y[2] > 30 THEN (IF y[1] < 0 THEN -1 ELSE 0)
    ELSE y[1] \div Pow2(-y[2])

fast_expf(x) ==
    IF x = NaN THEN NaN
    ELSE LET y0   == FMul(x, FLog2E)
             y    == FMax(FromInt(-126), FMin(FromInt(126), y0))
             n    == FFloor(y)
             frac == FSub(y, FromInt(n))
             mant == FAdd(F1, frac)
         IN <<mant[1], mant[2] + n>>

(***************************************************************************)
(* Bounds of the model and the inputs the kernels are run on               *)
(***************************************************************************)
MaxWidth == 3

MaxHeight == 2

MaxR == 1

MaxF == 1

\* rect = (x, y, z, w): lower corner inclusive, upper corner exclusive
Origins == {<<0, 0>>, <<2, 1>>}

\* every width and height at the first origin, the full height at the others
Rects ==
    {rc \in {[x |-> o[1], y |-> o[2], z |-> o[1] + wd, w |-> o[2] + ht] :
                o \in Origins, wd \in 1..MaxWidth, ht \in 1..MaxHeight} :
        rc.x = 0 \/ rc.w - rc.y = MaxHeight}

RectWidth(rect) == rect.z - rect.x

RectHeight(rect) == rect.w - rect.y

InRect(rect, px, py) ==
    rect.x <= px /\ px < rect.z /\ rect.y <= py /\ py < rect.w

\* width of one row of every rect-shaped buffer
buffer_w(rect) == align_up(rect.z - rect.x, 4)

BufferSize(rect) == buffer_w(rect) * RectHeight(rect)

\* the row of the pixel counted once instead of once per buffer row
PixelIdx_no_row(rect, px, py) == (py - rect.y) + (px - rect.x)

\* index of pixel (px, py) in a rect-shaped buffer
PixelIdx(rect, px, py) == (py - rect.y) * buffer_w(rect) + (px - rect.x)

\* 0.9f
F09 == <<15099494, -24>>

\* contents of an image buffer: a pixel value for every column and row of the
\* rect; the padding columns of a row hold 0
PixelValue(kind, col, row) ==
    CASE kind = "c5"   -> FromInt(5)
      [] kind = "c09"  -> F09
      [] kind = "zero" -> FZero
      [] kind = "one"  -> F1
      [] kind = "ramp" -> FromInt(col + 2 * row)
      [] kind = "step" -> FromScaled(3 * ((col + row) % 2), 1)

MakeImage(kind, rect) ==
    [i \in 0..(BufferSize(rect) - 1) |->
        IF i % buffer_w(rect) < RectWidth(rect)
        THEN PixelValue(kind, i % buffer_w(rect), i \div buffer_w(rect))
        ELSE FZero]

\* the runs of the filter: <<noisyImage, weightImage, variance, a, k_2>>
Runs ==
    {<<"c5", "c5", "zero", FromInt(1), FromInt(1)>>,
     <<"c5", "c5", "zero", FromInt(-1), FromInt(1)>>,
     <<"c5", "c5", "zero", FromInt(1), FZero>>,
     <<"c09", "c09", "zero", FromInt(1), FromInt(1)>>,
     <<"ramp", "ramp", "one", FromInt(1), FromInt(1)>>,
     <<"ramp", "ramp", "one", FromInt(-1), FromInt(1)>>,
     <<"ramp", "ramp", "one", FromInt(1), FZero>>,
     <<"ramp", "c5", "step", FromInt(1), FromInt(1)>>,
     <<"ramp", "c5", "step", FromInt(-1), FromInt(1)>>,
     <<"c5", "ramp", "zero", FromInt(1), FromInt(1)>>}

\* buf[i]; a read outside the buffer yields whatever lies there
Rd(buf, i) == IF i \in DOMAIN buf THEN buf[i] ELSE NaN

(***************************************************************************)
(* kernel_filter_non_local_means                                           *)
(***************************************************************************)
VARIABLES
    pc,             \* position in the kernel
    rect, x, y, r, f, a, k_2,
    noisyKind, weightKind, varianceKind,
    noisyImage, weightImage, variance, filteredImage,
    low, high, sum_image, sum_weight, w, p_idx, q_idx, qy, qx,
    low_dPatch, high_dPatch, dIdx, dI, dy, dx,
    contrib,        \* history: one entry per update of sum_image / sum_weight
    kernel,         \* the kernel a pass runs once per pixel of rect
    mem,            \* the rect-shaped buffers, by name
    arg,            \* the buffer passed for each pointer parameter
    sample, m_offset, v_offset,
    tile_x, tile_y, offset, stride, buffers,
    pass_stride, pass_denoising,
    tileKind, xsplit, ysplit,
    overflow,       \* what the build makes of a signed product that overflows
    tpc,            \* per pixel: the number of statements its invocation has run
    tval,           \* per pixel: the value its invocation holds in a register
    rd, wr,         \* history: per pixel, the slots its invocation read and wrote
    overlapped      \* history: an invocation stored while an earlier pixel's was running

passInputs == <<kernel, arg, sample, m_offset, v_offset, tile_x, tile_y, offset,
                stride, buffers, pass_stride, pass_denoising, tileKind, xsplit,
                ysplit, overflow>>

passVars == <<passInputs, mem, tpc, tval, rd, wr, overlapped>>

\* no pass is running (the outcome of an overflow is left open)
NoPass ==
    /\ kernel = "none" /\ mem = <<>> /\ arg = <<>>
    /\ sample = 0 /\ m_offset = 0 /\ v_offset = 0
    /\ tile_x = <<>> /\ tile_y = <<>> /\ offset = <<>> /\ stride = <<>>
    /\ buffers = <<>> /\ pass_stride = 0 /\ pass_denoising = 0
    /\ tileKind = "none" /\ xsplit = <<>> /\ ysplit = <<>>
    /\ tpc = <<>> /\ tval = <<>> /\ rd = <<>> /\ wr = <<>>
    /\ overlapped = FALSE

\* no pass is running
PassIdle == NoPass /\ overflow = "none"

nlmInputs == <<rect, x, y, r, f, a, k_2, noisyKind, weightKind, varianceKind,
               noisyImage, weightImage, variance>>

nlmLocals == <<low, high, sum_image, sum_weight, w, p_idx, q_idx, qy, qx,
               low_dPatch, high_dPatch, dIdx, dI, dy, dx>>

(***************************************************************************)
(* The cache library operators: state of parse_slices and of a bake        *)
(***************************************************************************)
VARIABLES
    ppc,            \* position in parse_slices
    str,            \* the characters of the "frames" string
    s_ofs,          \* const char *s, as an index into str (1 is the first)
    slices,         \* ListBase *slices, one [start, end] per CacheSlice
    parsed,         \* what parse_slices returned
    bpc,            \* position in cache_library_bake_start / _do / _end
    use_job,        \* the bake runs as a job (data from MEM_callocN)
    eval_mode, source_mode, start_frame, end_frame,
    todo,           \* the passes cache_library_bake_start has still to run
    stop, is_break, \* *data->stop and G.is_break
    cfra, framelen, \* scene->r.cfra and scene->r.framelen
    origfra, origframelen,
    archive, writer,
    cachelib_flag,  \* data->cachelib->flag, as a set of flags
    psys_flag,      \* psys->pointcache->flag of every particle system
    dupcache,       \* process_data.dupcache of the running cache_library_bake_do
    frame, frame_prev,
    frame_wide,     \* frame holds INT_MAX + 1 in a register wider than int
    entered,        \* history: what cache_library_bake_start and _do found on entry
    samples,        \* history: <<frame, frame_prev>> of every PTC_write_sample
                    \* of the running cache_library_bake_do
    returns,        \* history: how each cache_library_bake_do returned
    dup_frees,      \* history: BKE_dupli_cache_free calls of the running call
    freed_invalid   \* history: PTC_writer_free was called on an invalid pointer

parseVars == <<ppc, str, s_ofs, slices, parsed>>

bakeInputs == <<use_job, eval_mode, source_mode, start_frame, end_frame>>

bakeVars == <<bpc, bakeInputs, todo, stop, is_break, cfra, framelen, origfra,
              origframelen, archive, writer, cachelib_flag, psys_flag,
              dupcache, frame, frame_prev, frame_wide, entered, samples,
              returns, dup_frees, freed_invalid>>

cacheVars == <<parseVars, bakeVars>>

\* parse_slices is not running
ParseIdle ==
    /\ ppc = "idle" /\ str = <<>> /\ s_ofs = 1 /\ slices = <<>> /\ parsed = FALSE

\* no bake is running
BakeIdle ==
    /\ bpc = "idle" /\ use_job = FALSE /\ eval_mode = {}
    /\ source_mode = "none" /\ start_frame = 0 /\ end_frame = 0
    /\ todo = <<>> /\ stop = FALSE /\ is_break = FALSE
    /\ cfra = 0 /\ framelen = FZero /\ origfra = 0 /\ origframelen = FZero
    /\ archive = "NULL" /\ writer = "NULL"
    /\ cachelib_flag = {} /\ psys_flag = <<>> /\ dupcache = "none"
    /\ frame = 0 /\ frame_prev = 0 /\ frame_wide = FALSE
    /\ entered = <<>> /\ samples = <<>> /\ returns = <<>> /\ dup_frees = 0
    /\ freed_invalid = FALSE

vars == <<pc, nlmInputs, nlmLocals, filteredImage, contrib, passVars, cacheVars>>

int2(a0, b0) == [x |-> a0, y |-> b0]

\* the search window not clipped to the rect at its lower corner
nlm_low_unclipped(rc, px, py, rr) == int2(px - rr, py - rr)

nlm_low(rc, px, py, rr) == int2(Max(rc.x, px - rr), Max(rc.y, py - rr))

\* the upper corner taken as inclusive: the "+ 1" is lost
nlm_high_off_by_one(rc, px, py, rr) ==
    int2(Min(rc.z, px + rr), Min(rc.w, py + rr))

nlm_high(rc, px, py, rr) ==
    int2(Min(rc.z, px + rr + 1), Min(rc.w, py + rr + 1))

\* the patch clipped around p only, not around q
nlm_low_dPatch_p_only(rc, px, py, cx, cy, ff) ==
    int2(Max(rc.x - px, -ff), Max(rc.y - py, -ff))

nlm_low_dPatch(rc, px, py, cx, cy, ff) ==
    int2(Max(Max(rc.x - cx, rc.x - px), -ff),
         Max(Max(rc.y - cy, rc.y - py), -ff))

nlm_high_dPatch(rc, px, py, cx, cy, ff) ==
    int2(Min(Min(rc.z - cx, rc.z - px), ff + 1),
         Min(Min(rc.w - cy, rc.w - py), ff + 1))

\* the variance correction added instead of subtracted
PatchTerm_bias_added(wimg, vimg, pi, qi, aa, kk) ==
    LET diff == FSub(Rd(wimg, pi), Rd(wimg, qi))
        vp   == Rd(vimg, pi)
        vq   == Rd(vimg, qi)
    IN FMul(FAdd(FMul(diff, diff), FMul(aa, FAdd(vp, FMin(vp, vq)))),
            FDiv(F1, FAdd(FEps, FMul(kk, FAdd(vp, vq)))))

\* the 1e-7f floor of the denominator left out
PatchTerm_no_floor(wimg, vimg, pi, qi, aa, kk) ==
    LET diff == FSub(Rd(wimg, pi), Rd(wimg, qi))
        vp   == Rd(vimg, pi)
        vq   == Rd(vimg, qi)
    IN FMul(FSub(FMul(diff, diff), FMul(aa, FAdd(vp, FMin(vp, vq)))),
            FDiv(F1, FMul(kk, FAdd(vp, vq))))

\* one summand of dI (the body of the loop over the patch)
PatchTerm(wimg, vimg, pi, qi, aa, kk) ==
    LET diff == FSub(Rd(wimg, pi), Rd(wimg, qi))
        vp   == Rd(vimg, pi)
        vq   == Rd(vimg, qi)
    IN FMul(FSub(FMul(diff, diff), FMul(aa, FAdd(vp, FMin(vp, vq)))),
            FDiv(F1, FAdd(FEps, FMul(kk, FAdd(vp, vq)))))

\* the patch distance not clamped at 0
ExpArg_unclamped(d) == FNeg(d)

\* the argument of fast_expf
ExpArg(d) == FNeg(FMax(FZero, d))

PatchArea(lo, hi) == (hi.x - lo.x) * (hi.y - lo.y)

NlmInit ==
    /\ pc = "start"
    /\ rect \in Rects
    /\ x \in rect.x..(rect.z - 1)
    /\ y \in rect.y..(rect.w - 1)
    /\ r \in 0..MaxR
    /\ f \in 0..MaxF
    /\ \E run \in Runs :
           /\ noisyKind = run[1] /\ weightKind = run[2]
           /\ varianceKind = run[3] /\ a = run[4] /\ k_2 = run[5]
    /\ noisyImage = MakeImage(noisyKind, rect)
    /\ weightImage = MakeImage(weightKind, rect)
    /\ variance = MakeImage(varianceKind, rect)
    /\ filteredImage = MakeImage("zero", rect)
    /\ low = int2(0, 0) /\ high = int2(0, 0)
    /\ sum_image = FZero /\ sum_weight = FZero
    /\ w = 0 /\ p_idx = 0 /\ q_idx = 0 /\ qy = 0 /\ qx = 0
    /\ low_dPatch = int2(0, 0) /\ high_dPatch = int2(0, 0)
    /\ dIdx = 0 /\ dI = FZero /\ dy = 0 /\ dx = 0
    /\ contrib = <<>>
    /\ PassIdle
    /\ ParseIdle /\ BakeIdle

\* lines 107-118: the search window, the sums and the indices are set up
NlmBegin ==
    /\ pc = "start"
    /\ low' = nlm_low(rect, x, y, r)
    /\ high' = nlm_high(rect, x, y, r)
    /\ sum_image' = FZero
    /\ sum_weight' = FZero
    /\ w' = buffer_w(rect)
    /\ p_idx' = (y - rect.y) * w' + (x - rect.x)
    /\ q_idx' = (low'.y - rect.y) * w' + (low'.x - rect.x)
    /\ qy' = low'.y
    /\ pc' = "qy_loop"
    /\ UNCHANGED <<cacheVars, passVars, nlmInputs, filteredImage, contrib, qx, low_dPatch,
                   high_dPatch, dIdx, dI, dy, dx>>

\* line 118: for(qy ...; qy < high.y; ...)
NlmRowEnter ==
    /\ pc = "qy_loop" /\ qy < high.y
    /\ qx' = low.x
    /\ pc' = "qx_loop"
    /\ UNCHANGED <<cacheVars, passVars, nlmInputs, filteredImage, contrib, low, high, sum_image,
                   sum_weight, w, p_idx, q_idx, qy, low_dPatch, high_dPatch,
                   dIdx, dI, dy, dx>>

NlmRowExit ==
    /\ pc = "qy_loop" /\ ~(qy < high.y)
    /\ pc' = "write"
    /\ UNCHANGED <<cacheVars, passVars, nlmInputs, nlmLocals, filteredImage, contrib>>

\* lines 119-127: the next q, its patch window
NlmColEnter ==
    /\ pc = "qx_loop" /\ qx < high.x
    /\ low_dPatch' = nlm_low_dPatch(rect, x, y, qx, qy, f)
    /\ high_dPatch' = nlm_high_dPatch(rect, x, y, qx, qy, f)
    /\ dIdx' = low_dPatch'.x + low_dPatch'.y * w
    /\ dI' = FZero
    /\ dy' = low_dPatch'.y
    /\ pc' = "dy_loop"
    /\ UNCHANGED <<cacheVars, passVars, nlmInputs, filteredImage, contrib, low, high, sum_image,
                   sum_weight, w, p_idx, q_idx, qy, qx, dx>>

\* line 140 and the qy++ of line 118
NlmColExit ==
    /\ pc = "qx_loop" /\ ~(qx < high.x)
    /\ q_idx' = q_idx + (w - (high.x - low.x))
    /\ qy' = qy + 1
    /\ pc' = "qy_loop"
    /\ UNCHANGED <<cacheVars, passVars, nlmInputs, filteredImage, contrib, low, high, sum_image,
                   sum_weight, w, p_idx, qx, low_dPatch, high_dPatch, dIdx,
                   dI, dy, dx>>

\* line 127: for(dy ...; dy < high_dPatch.y; ...)
NlmPatchRowEnter ==
    /\ pc = "dy_loop" /\ dy < high_dPatch.y
    /\ dx' = low_dPatch.x
    /\ pc' = "dx_loop"
    /\ UNCHANGED <<cacheVars, passVars, nlmInputs, filteredImage, contrib, low, high, sum_image,
                   sum_weight, w, p_idx, q_idx, qy, qx, low_dPatch,
                   high_dPatch, dIdx, dI, dy>>

\* lines 134-138 and the qx++, q_idx++ of line 119
NlmPatchRowExit ==
    /\ pc = "dy_loop" /\ ~(dy < high_dPatch.y)
    /\ LET area == PatchArea(low_dPatch, high_dPatch)
           dIn  == FMul(dI, FDiv(F1, FromInt(area)))
           wI   == fast_expf(ExpArg(dIn))
       IN /\ dI' = dIn
          /\ sum_image' = FAdd(sum_image, FMul(wI, Rd(noisyImage, q_idx)))
          /\ sum_weight' = FAdd(sum_weight, wI)
          /\ contrib' = Append(contrib,
                 [qx |-> qx, qy |-> qy, q_idx |-> q_idx, area |-> area,
                  dI |-> dIn, arg |-> ExpArg(dIn), wI |-> wI])
    /\ qx' = qx + 1
    /\ q_idx' = q_idx + 1
    /\ pc' = "qx_loop"
    /\ UNCHANGED <<cacheVars, passVars, nlmInputs, filteredImage, low, high, w, p_idx, qy,
                   low_dPatch, high_dPatch, dIdx, dy, dx>>

\* lines 128-131: one patch offset
NlmPatchColBody ==
    /\ pc = "dx_loop" /\ dx < high_dPatch.x
    /\ dI' = FAdd(dI, PatchTerm(weightImage, variance, p_idx + dIdx,
                                q_idx + dIdx, a, k_2))
    /\ dx' = dx + 1
    /\ dIdx' = dIdx + 1
    /\ UNCHANGED <<pc, cacheVars, passVars, nlmInputs, filteredImage, contrib, low, high,
                   sum_image, sum_weight, w, p_idx, q_idx, qy, qx,
                   low_dPatch, high_dPatch, dy>>

\* the dy++ of line 127 without the correction of line 132
NlmPatchColExit_no_correction ==
    /\ pc = "dx_loop" /\ ~(dx < high_dPatch.x)
    /\ dy' = dy + 1
    /\ pc' = "dy_loop"
    /\ UNCHANGED <<cacheVars, passVars, nlmInputs, filteredImage, contrib, low, high, sum_image,
                   sum_weight, w, p_idx, q_idx, qy, qx, low_dPatch,
                   high_dPatch, dI, dx, dIdx>>

\* line 132 and the dy++ of line 127
NlmPatchColExit ==
    /\ pc = "dx_loop" /\ ~(dx < high_dPatch.x)
    /\ dIdx' = dIdx + (w - (high_dPatch.x - low_dPatch.x))
    /\ dy' = dy + 1
    /\ pc' = "dy_loop"
    /\ UNCHANGED <<cacheVars, passVars, nlmInputs, filteredImage, contrib, low, high, sum_image,
                   sum_weight, w, p_idx, q_idx, qy, qx, low_dPatch,
                   high_dPatch, dI, dx>>

\* line 143 without the division by sum_weight
NlmWrite_unnormalised ==
    /\ pc = "write"
    /\ filteredImage' =
           IF p_idx \in DOMAIN filteredImage
           THEN [filteredImage EXCEPT ![p_idx] = sum_image]
           ELSE filteredImage
    /\ pc' = "done"
    /\ UNCHANGED <<cacheVars, passVars, nlmInputs, nlmLocals, contrib>>

\* line 143
NlmWrite ==
    /\ pc = "write"
    /\ filteredImage' =
           IF p_idx \in DOMAIN filteredImage
           THEN [filteredImage EXCEPT ![p_idx] = FDiv(sum_image, sum_weight)]
           ELSE filteredImage
    /\ pc' = "done"
    /\ UNCHANGED <<cacheVars, passVars, nlmInputs, nlmLocals, contrib>>

NlmNext ==
    \/ NlmBegin
    \/ NlmRowEnter
    \/ NlmRowExit
    \/ NlmColEnter
    \/ NlmColExit
    \/ NlmPatchRowEnter
    \/ NlmPatchRowExit
    \/ NlmPatchColBody
    \/ NlmPatchColExit
    \/ NlmWrite

SpecNLM == NlmInit /\ [][NlmNext]_vars

(***************************************************************************)
(* kernel_filter_non_local_means as a function of the buffers: the value   *)
(* written to filteredImage[p_idx] and the slots read on the way.  The     *)
(* loops run in the order of the code, the indices are taken from the      *)
(* coordinates.                                                            *)
(***************************************************************************)
\* the pixels lo <= (px, py) < hi in row-major order
RowMajor(lo, hi) ==
    [i \in 1..((hi.x - lo.x) * (hi.y - lo.y)) |->
        int2(lo.x + ((i - 1) % (hi.x - lo.x)), lo.y + ((i - 1) \div (hi.x - lo.x)))]

\* lines 126-134: the patch distance of p = (px, py) and q = (cx, cy)
RECURSIVE PatchSum(_, _, _, _, _, _, _, _, _)
PatchSum(wimg, vimg, rc, pi, qi, aa, kk, offs, i) ==
    IF i = 0 THEN FZero
    ELSE FAdd(PatchSum(wimg, vimg, rc, pi, qi, aa, kk, offs, i - 1),
              PatchTerm(wimg, vimg,
                        pi + offs[i].x + offs[i].y * buffer_w(rc),
                        qi + offs[i].x + offs[i].y * buffer_w(rc), aa, kk))

nlm_dI(wimg, vimg, rc, px, py, cx, cy, ff, aa, kk) ==
    LET lo   == nlm_low_dPatch(rc, px, py, cx, cy, ff)
        hi   == nlm_high_dPatch(rc, px, py, cx, cy, ff)
        offs == RowMajor(lo, hi)
    IN FMul(PatchSum(wimg, vimg, rc, PixelIdx(rc, px, py),
                     PixelIdx(rc, cx, cy), aa, kk, offs, Len(offs)),
            FDiv(F1, FromInt(PatchArea(lo, hi))))

\* line 136
nlm_wI(wimg, vimg, rc, px, py, cx, cy, ff, aa, kk) ==
    fast_expf(ExpArg(nlm_dI(wimg, vimg, rc, px, py, cx, cy, ff, aa, kk)))

\* lines 137-138 over the first i candidates: <<sum_image, sum_weight>>
RECURSIVE nlm_sums(_, _, _, _, _, _, _, _, _, _, _)
nlm_sums(nimg, wimg, vimg, rc, px, py, ff, aa, kk, qs, i) ==
    IF i = 0 THEN <<FZero, FZero>>
    ELSE LET prev == nlm_sums(nimg, wimg, vimg, rc, px, py, ff, aa, kk, qs, i - 1)
             wI   == nlm_wI(wimg, vimg, rc, px, py, qs[i].x, qs[i].y, ff, aa, kk)
         IN <<FAdd(prev[1], FMul(wI, Rd(nimg, PixelIdx(rc, qs[i].x, qs[i].y)))),
              FAdd(prev[2], wI)>>

\* line 143: the value stored to filteredImage[p_idx]
nlm_result(nimg, wimg, vimg, rc, px, py, rr, ff, aa, kk) ==
    LET lo == nlm_low(rc, px, py, rr)
        hi == nlm_high(rc, px, py, rr)
        qs == IF hi.x > lo.x /\ hi.y > lo.y THEN RowMajor(lo, hi) ELSE <<>>
        sm == nlm_sums(nimg, wimg, vimg, rc, px, py, ff, aa, kk, qs, Len(qs))
    IN FDiv(sm[1], sm[2])

\* the slots of the weight image and of the variance read for p
nlm_patch_reads(rc, px, py, rr, ff) ==
    LET lo == nlm_low(rc, px, py, rr)
        hi == nlm_high(rc, px, py, rr)
    IN UNION {
         LET dlo == nlm_low_dPatch(rc, px, py, cx, cy, ff)
             dhi == nlm_high_dPatch(rc, px, py, cx, cy, ff)
         IN UNION {{PixelIdx(rc, px + ddx, py + ddy),
                    PixelIdx(rc, cx + ddx, cy + ddy)} :
                      ddx \in dlo.x..(dhi.x - 1), ddy \in dlo.y..(dhi.y - 1)}
         : cx \in lo.x..(hi.x - 1), cy \in lo.y..(hi.y - 1)}

\* the slots of the noisy image read for p
nlm_noisy_reads(rc, px, py, rr) ==
    LET lo == nlm_low(rc, px, py, rr)
        hi == nlm_high(rc, px, py, rr)
    IN {PixelIdx(rc, cx, cy) : cx \in lo.x..(hi.x - 1), cy \in lo.y..(hi.y - 1)}

(***************************************************************************)
(* The tile grid read by kernel_filter_divide_shadow and                  *)
(* kernel_filter_get_feature                                               *)
(***************************************************************************)
MaxPassWidth == 2

MaxInFlight == 2

PassHeights == {1, 2}

PassOrigins == {<<2, 1>>}

\* the widths of rect in a pass of the non-local means filter
NlmPassWidths == {1, 2}

PassRects ==
    {[x |-> o[1], y |-> o[2], z |-> o[1] + wd, w |-> o[2] + ht] :
        o \in PassOrigins, wd \in 1..MaxPassWidth, ht \in PassHeights}

\* where the second and the third band of tiles start, counted from the start
\* of the first band, for bands that cover n pixels together
Split(mode, n) ==
    CASE mode = "mid"      -> <<0, n>>
      [] mode = "lower"    -> <<1, n>>
      [] mode = "upper"    -> <<0, n - 1>>
      [] mode = "three"    -> <<1, Min(2, n)>>
      [] mode = "unsorted" -> <<1, 0>>

\* the tile grids of a pass: <<split of the columns, split of the rows,
\* pass_stride, pass_denoising, contents of the tiles, sample, m_offset,
\* v_offset, outcome of an overflowing signed product>>
TileRuns ==
    {<<"mid", "mid", 20, 0, "pos", 2, 0, 1, "wrap">>,
     <<"lower", "upper", 22, 1, "mixed", 3, 4, 7, "wide">>,
     <<"three", "lower", 20, 0, "mixed", 2, 0, 1, "wrap">>,
     <<"upper", "three", 22, 1, "pos", 3, 4, 7, "wrap">>,
     <<"unsorted", "mid", 20, 0, "pos", 2, 0, 1, "wide">>,
     <<"mid", "mid", 20, 0, "pos", 46341, 0, 1, "wrap">>,
     <<"mid", "mid", 20, 0, "pos", 46342, 0, 1, "wrap">>,
     <<"mid", "mid", 20, 0, "pos", 46342, 0, 1, "wide">>,
     <<"mid", "mid", 20, 0, "pos", 65537, 0, 1, "wrap">>,
     <<"mid", "mid", 20, 0, "pos", 1, 0, 1, "wrap">>,
     <<"mid", "mid", 20, 0, "pos", 0, 0, 1, "wrap">>}

\* tile_x / tile_y: the start of the lower, current and upper tile and the end
\* of the upper tile plus one
TileBounds(lo, hi, split) ==
    [k \in 0..3 |->
        CASE k = 0 -> lo
          [] k = 1 -> lo + split[1]
          [] k = 2 -> lo + split[2]
          [] k = 3 -> hi]

\* a tile's buffer holds its pixels row by row, pass_stride floats per pixel
TileStride(tx, t) == tx[(t % 3) + 1] - tx[t % 3]

TileOffset(tx, ty, t) == -(tx[t % 3] + ty[t \div 3] * TileStride(tx, t))

\* the accumulated value of pass element sub at pixel (px, py)
TileElem(kind, px, py, sub) ==
    CASE kind = "pos"   -> FromInt(1 + ((px + 2 * py + sub) % 3))
      [] kind = "mixed" -> FromInt(((px + py + sub) % 3) - 1)

MakeTileBuffer(kind, tx, ty, ps, pd, t) ==
    LET tw == tx[(t % 3) + 1] - tx[t % 3]
        th == ty[(t \div 3) + 1] - ty[t \div 3]
    IN [i \in 0..(tw * th * ps - 1) |->
           IF i % ps < pd THEN FZero
           ELSE TileElem(kind, tx[t % 3] + ((i \div ps) % tw),
                         ty[t \div 3] + ((i \div ps) \div tw), (i % ps) - pd)]

\* lines 30-31 / 59-60 with the boundary itself put into the lower band
band_of_le(bounds, c) ==
    IF c <= bounds[1] THEN 0 ELSE (IF c <= bounds[2] THEN 1 ELSE 2)

\* lines 30-31 / 59-60: xtile and ytile
band_of(bounds, c) ==
    IF c < bounds[1] THEN 0 ELSE (IF c < bounds[2] THEN 1 ELSE 2)

\* lines 32 / 61
tile_of(px, py) == band_of(tile_y, py) * 3 + band_of(tile_x, px)

\* lines 33 / 62: center_buffer, as an index into buffers[tile]
center_buffer(px, py) ==
    (offset[tile_of(px, py)] + py * stride[tile_of(px, py)] + px) * pass_stride
        + pass_denoising

\* center_buffer[sub]
CB(px, py, sub) == Rd(buffers[tile_of(px, py)], center_buffer(px, py) + sub)

CBRead(px, py, sub) ==
    [buf |-> "buffers", tile |-> tile_of(px, py),
     slot |-> center_buffer(px, py) + sub]

(***************************************************************************)
(* The statements of the kernels as functions of the memory: the memory    *)
(* after the statement, the value kept in a register, the slots read and   *)
(* the slots written (with the line of the store)                          *)
(***************************************************************************)
\* the second half starts where the first ends only for an unpadded row
Bofs_unpadded(rc) == (rc.w - rc.y) * (rc.z - rc.x)

\* the offset of the second half forgotten
Bofs_none(rc) == 0

\* line 37
Bofs(rc) == (rc.w - rc.y) * buffer_w(rc)

\* m with m[name][i] = v; a store outside the buffer is lost
Wr(m, name, i, v) ==
    IF name \in DOMAIN m /\ i \in DOMAIN m[name]
    THEN [m EXCEPT ![name][i] = v]
    ELSE m

Slot(name, i) == [buf |-> name, slot |-> i]

Store(name, i, line) == [buf |-> name, slot |-> i, line |-> line]

Effect(m, v, reads, writes) == [mem |-> m, val |-> v, rd |-> reads, wr |-> writes]

\* lines 107-141: everything read, sum_image / sum_weight kept
NlmLoadEffect(m, v, px, py) ==
    Effect(m,
           nlm_result(m[arg.noisyImage], m[arg.weightImage], m[arg.variance],
                      rect, px, py, r, f, a, k_2),
           {Slot(arg.weightImage, i) : i \in nlm_patch_reads(rect, px, py, r, f)}
             \cup {Slot(arg.variance, i) : i \in nlm_patch_reads(rect, px, py, r, f)}
             \cup {Slot(arg.noisyImage, i) : i \in nlm_noisy_reads(rect, px, py, r)},
           {})

\* line 143
NlmStoreEffect(m, v, px, py) ==
    Effect(Wr(m, arg.filteredImage, PixelIdx(rect, px, py), v), v, {},
           {Store(arg.filteredImage, PixelIdx(rect, px, py), 143)})

\* line 77 for the buffers args passes as mean, a and b
CombineMeanWrite(m, args, idx) ==
    IF args.mean = "null" THEN m
    ELSE Wr(m, args.mean, idx,
            FMul(FHalf, FAdd(Rd(m[args.a], idx), Rd(m[args.b], idx))))

\* line 78 with the second factor taken from a alone
CombineVarianceWrite_one_sided(m, args, idx) ==
    LET d == FSub(Rd(m[args.a], idx), Rd(m[args.b], idx)) IN
    IF args.variance = "null" THEN m
    ELSE Wr(m, args.variance, idx, FMul(FMul(FHalf, d), Rd(m[args.a], idx)))

\* line 78 run only if mean is requested as well
CombineVarianceWrite_needs_mean(m, args, idx) ==
    LET d == FSub(Rd(m[args.a], idx), Rd(m[args.b], idx)) IN
    IF args.variance = "null" \/ args.mean = "null" THEN m
    ELSE Wr(m, args.variance, idx, FMul(FMul(FHalf, d), d))

\* line 78 for the buffers args passes as variance, a and b
CombineVarianceWrite(m, args, idx) ==
    LET d == FSub(Rd(m[args.a], idx), Rd(m[args.b], idx)) IN
    IF args.variance = "null" THEN m
    ELSE Wr(m, args.variance, idx, FMul(FMul(FHalf, d), d))

\* lines 77-78: the memory after one call
combine_halves(m, args, idx) ==
    CombineVarianceWrite(CombineMeanWrite(m, args, idx), args, idx)

\* line 77
CombineMeanEffect(m, v, px, py) ==
    LET idx == PixelIdx(rect, px, py) IN
    IF arg.mean = "null" THEN Effect(m, v, {}, {})
    ELSE Effect(CombineMeanWrite(m, arg, idx),
                v, {Slot(arg.a, idx), Slot(arg.b, idx)},
                {Store(arg.mean, idx, 77)})

\* line 78
CombineVarianceEffect(m, v, px, py) ==
    LET idx == PixelIdx(rect, px, py) IN
    IF arg.variance = "null" THEN Effect(m, v, {}, {})
    ELSE Effect(CombineVarianceWrite(m, arg, idx),
                v, {Slot(arg.a, idx), Slot(arg.b, idx)},
                {Store(arg.variance, idx, 78)})

\* an int has IntBits bits; products are formed in two halves of LimbBits bits
IntBits == 32

LimbBits == IntBits \div 2

Limb == Pow2(LimbBits)

\* acc * 2^(k+1) + m * (the low k+1 bits of n) for 0 <= m, n < 2^(IntBits-1):
\* the low IntBits bits in two halves, and whether higher bits are set
RECURSIVE MulLimbs(_, _, _, _)
MulLimbs(m, n, k, acc) ==
    IF k < 0 THEN acc
    ELSE LET bit == (n \div Pow2(k)) % 2
             lo2 == 2 * acc.lo + bit * (m % Limb)
             hi2 == 2 * acc.hi + bit * (m \div Limb) + (lo2 \div Limb)
         IN MulLimbs(m, n, k - 1,
                     [over |-> acc.over \/ hi2 >= Limb,
                      hi |-> hi2 % Limb, lo |-> lo2 % Limb])

\* the int product m * n: whether it is representable, and the value of its
\* low IntBits bits as a two's complement int
int_mul(m, n) ==
    LET mag  == MulLimbs(Abs(m), Abs(n), IntBits - 2,
                         [over |-> FALSE, hi |-> 0, lo |-> 0])
        bits == IF mag.hi >= Limb \div 2
                THEN (mag.hi - Limb) * Limb + mag.lo
                ELSE mag.hi * Limb + mag.lo
    IN [fits |-> ~mag.over /\ mag.hi < Limb \div 2,
        wrapped |-> Sgn(m) * Sgn(n) * bits]

\* (float)(sample * (sample - 1)), lines 40 and 67; a product that overflows
\* is undefined: the build wraps it or forms it in a wider type
SampleDivisor(n) ==
    LET pr == int_mul(n, n - 1) IN
    IF pr.fits \/ overflow = "wrap" THEN FromInt(pr.wrapped)
    ELSE FMul(FromInt(n), FromInt(n - 1))

\* line 66
FeatureMeanEffect(m, v, px, py) ==
    LET idx == PixelIdx(rect, px, py) IN
    Effect(Wr(m, arg.mean, idx, FDiv(CB(px, py, m_offset), FromInt(sample))),
           v, {CBRead(px, py, m_offset)}, {Store(arg.mean, idx, 66)})

\* line 67
FeatureVarianceEffect(m, v, px, py) ==
    LET idx == PixelIdx(rect, px, py) IN
    Effect(Wr(m, arg.variance, idx,
              FDiv(CB(px, py, v_offset), SampleDivisor(sample))),
           SampleDivisor(sample),
           {CBRead(px, py, v_offset)}, {Store(arg.variance, idx, 67)})

\* lines 38-39 with the accumulators themselves as denominators
ShadowUnfilteredEffect_no_floor(m, v, px, py) ==
    LET idx == PixelIdx(rect, px, py)
        m1  == Wr(m, arg.unfiltered, idx, FDiv(CB(px, py, 15), CB(px, py, 14)))
        m2  == Wr(m1, arg.unfiltered, idx + Bofs(rect),
                  FDiv(CB(px, py, 18), CB(px, py, 17)))
    IN Effect(m2, v, {CBRead(px, py, k) : k \in {14, 15, 17, 18}},
              {Store(arg.unfiltered, idx, 38),
               Store(arg.unfiltered, idx + Bofs(rect), 39)})

\* lines 38-39
ShadowUnfilteredEffect(m, v, px, py) ==
    LET idx == PixelIdx(rect, px, py)
        m1  == Wr(m, arg.unfiltered, idx,
                  FDiv(CB(px, py, 15), FMax(CB(px, py, 14), FEps)))
        m2  == Wr(m1, arg.unfiltered, idx + Bofs(rect),
                  FDiv(CB(px, py, 18), FMax(CB(px, py, 17), FEps)))
    IN Effect(m2, v, {CBRead(px, py, k) : k \in {14, 15, 17, 18}},
              {Store(arg.unfiltered, idx, 38),
               Store(arg.unfiltered, idx + Bofs(rect), 39)})

\* lines 40-42
ShadowSampleVarianceEffect(m, v, px, py) ==
    LET idx    == PixelIdx(rect, px, py)
        varFac == FDiv(F1, SampleDivisor(sample))
        d      == FSub(CB(px, py, 16), CB(px, py, 19))
        m1     == Wr(m, arg.sampleVariance, idx,
                     FMul(FAdd(CB(px, py, 16), CB(px, py, 19)), varFac))
        m2     == Wr(m1, arg.sampleVarianceV, idx,
                     FMul(FMul(FMul(FHalf, d), d), varFac))
    IN Effect(m2, varFac, {CBRead(px, py, k) : k \in {16, 19}},
              {Store(arg.sampleVariance, idx, 41),
               Store(arg.sampleVarianceV, idx, 42)})

\* line 43
ShadowBufferVarianceEffect(m, v, px, py) ==
    LET idx == PixelIdx(rect, px, py)
        d   == FSub(Rd(m[arg.unfiltered], idx),
                    Rd(m[arg.unfiltered], idx + Bofs(rect)))
    IN Effect(Wr(m, arg.bufferVariance, idx, FMul(FMul(FHalf, d), d)),
              v, {Slot(arg.unfiltered, idx), Slot(arg.unfiltered, idx + Bofs(rect))},
              {Store(arg.bufferVariance, idx, 43)})

\* the number of statements of a kernel
NumSteps(k) ==
    CASE k = "non_local_means" -> 2
      [] k = "combine_halves"  -> 2
      [] k = "get_feature"     -> 2
      [] k = "divide_shadow"   -> 3

\* statement n of kernel k for pixel (px, py)
StepEffect(k, n, m, v, px, py) ==
    CASE k = "non_local_means" /\ n = 1 -> NlmLoadEffect(m, v, px, py)
      [] k = "non_local_means" /\ n = 2 -> NlmStoreEffect(m, v, px, py)
      [] k = "combine_halves" /\ n = 1  -> CombineMeanEffect(m, v, px, py)
      [] k = "combine_halves" /\ n = 2  -> CombineVarianceEffect(m, v, px, py)
      [] k = "get_feature" /\ n = 1     -> FeatureMeanEffect(m, v, px, py)
      [] k = "get_feature" /\ n = 2     -> FeatureVarianceEffect(m, v, px, py)
      [] k = "divide_shadow" /\ n = 1   -> ShadowUnfilteredEffect(m, v, px, py)
      [] k = "divide_shadow" /\ n = 2   -> ShadowSampleVarianceEffect(m, v, px, py)
      [] k = "divide_shadow" /\ n = 3   -> ShadowBufferVarianceEffect(m, v, px, py)

\* the memory after one whole invocation for (px, py), statements 1..n
RECURSIVE RunKernel(_, _, _, _, _)
RunKernel(k, n, m, px, py) ==
    IF n = 0 THEN Effect(m, FZero, {}, {})
    ELSE LET before == RunKernel(k, n - 1, m, px, py)
         IN StepEffect(k, n, before.mem, before.val, px, py)

\* the memory after invocations for the first n pixels of rect in row-major order
RECURSIVE SequentialPass(_, _, _)
SequentialPass(k, m, n) ==
    IF n = 0 THEN m
    ELSE LET p == RowMajor(int2(rect.x, rect.y), int2(rect.z, rect.w))[n]
         IN RunKernel(k, NumSteps(k), SequentialPass(k, m, n - 1), p.x, p.y).mem

(***************************************************************************)
(* A pass: the kernel is invoked once for every pixel of rect; at most     *)
(* MaxInFlight invocations run at a time and their statements interleave   *)
(* in any order                                                            *)
(***************************************************************************)
Pixels == {<<px, py>> : px \in rect.x..(rect.z - 1), py \in rect.y..(rect.w - 1)}

\* what an output buffer of n floats holds before the pass
Garbage(n) == [i \in 0..(n - 1) |-> FromInt(-1 - i)]

\* the runs of the filter in a pass:
\* <<noisyImage, weightImage, variance, a, k_2, r, f, filteredImage>>
PassRuns ==
    {<<"ramp", "ramp", "one", FromInt(1), FromInt(1), MaxR, 0, "filteredImage">>,
     <<"ramp", "c5", "step", FromInt(1), FromInt(1), 0, MaxF, "filteredImage">>,
     <<"ramp", "ramp", "one", FromInt(1), FromInt(1), MaxR, 0, "noisyImage">>}

\* the memory before the pass
InitMem(k, rc, nk, wk, vk) ==
    CASE k = "non_local_means" ->
           [noisyImage |-> MakeImage(nk, rc), weightImage |-> MakeImage(wk, rc),
            variance |-> MakeImage(vk, rc), filteredImage |-> Garbage(BufferSize(rc))]
      [] k = "combine_halves" ->
           [a |-> MakeImage(nk, rc), b |-> MakeImage(wk, rc),
            mean |-> Garbage(BufferSize(rc)), variance |-> Garbage(BufferSize(rc))]
      [] k = "get_feature" ->
           [mean |-> Garbage(BufferSize(rc)), variance |-> Garbage(BufferSize(rc))]
      [] k = "divide_shadow" ->
           [unfiltered |-> Garbage(2 * BufferSize(rc)),
            sampleVariance |-> Garbage(BufferSize(rc)),
            sampleVarianceV |-> Garbage(BufferSize(rc)),
            bufferVariance |-> Garbage(BufferSize(rc))]

\* the stepwise kernel of one pixel is not running
NlmIdle ==
    /\ x = 0 /\ y = 0
    /\ noisyImage = <<>> /\ weightImage = <<>> /\ variance = <<>>
    /\ filteredImage = <<>>
    /\ low = int2(0, 0) /\ high = int2(0, 0)
    /\ sum_image = FZero /\ sum_weight = FZero
    /\ w = 0 /\ p_idx = 0 /\ q_idx = 0 /\ qy = 0 /\ qx = 0
    /\ low_dPatch = int2(0, 0) /\ high_dPatch = int2(0, 0)
    /\ dIdx = 0 /\ dI = FZero /\ dy = 0 /\ dx = 0
    /\ contrib = <<>>

NoTiles ==
    /\ sample = 0 /\ m_offset = 0 /\ v_offset = 0
    /\ tile_x = <<>> /\ tile_y = <<>> /\ offset = <<>> /\ stride = <<>>
    /\ buffers = <<>> /\ pass_stride = 0 /\ pass_denoising = 0
    /\ tileKind = "none" /\ xsplit = <<>> /\ ysplit = <<>>
    /\ overflow = "none"

NoFilter == r = 0 /\ f = 0 /\ a = FZero /\ k_2 = FZero

\* the tile grid covers rect; every tile has its own buffer, offset and stride
\* the heights of rect in a pass with a sample count at the edge of int
EdgeSampleHeights == {1}

TilesInit ==
    /\ \E run \in TileRuns :
          /\ run[6] \in 2..3 \/ rect.w - rect.y \in EdgeSampleHeights
          /\ xsplit = Split(run[1], rect.z - rect.x)
          /\ ysplit = Split(run[2], rect.w - rect.y)
          /\ pass_stride = run[3] /\ pass_denoising = run[4]
          /\ tileKind = run[5]
          /\ sample = run[6]
          /\ m_offset = run[7] /\ v_offset = run[8]
          /\ overflow = run[9]
    /\ tile_x = TileBounds(rect.x, rect.z, xsplit)
    /\ tile_y = TileBounds(rect.y, rect.w, ysplit)
    /\ stride = [t \in 0..8 |-> TileStride(tile_x, t)]
    /\ offset = [t \in 0..8 |-> TileOffset(tile_x, tile_y, t)]
    /\ buffers = [t \in 0..8 |->
                    MakeTileBuffer(tileKind, tile_x, tile_y, pass_stride,
                                   pass_denoising, t)]

PassInit ==
    /\ pc = "pass"
    /\ rect \in PassRects
    /\ NlmIdle
    /\ \/ /\ kernel = "non_local_means"
          /\ rect.z - rect.x \in NlmPassWidths
          /\ \E run \in PassRuns :
                /\ noisyKind = run[1] /\ weightKind = run[2]
                /\ varianceKind = run[3] /\ a = run[4] /\ k_2 = run[5]
                /\ r = run[6] /\ f = run[7]
                /\ arg = [noisyImage |-> "noisyImage",
                          weightImage |-> "weightImage",
                          variance |-> "variance", filteredImage |-> run[8]]
          /\ NoTiles
       \/ /\ kernel = "combine_halves"
          /\ noisyKind = "ramp" /\ weightKind = "c09"
          /\ varianceKind = "zero"
          /\ NoFilter
          /\ \E out \in {<<"mean", "variance">>, <<"null", "variance">>,
                         <<"mean", "null">>, <<"null", "null">>,
                         <<"a", "variance">>} :
                arg = [mean |-> out[1], variance |-> out[2], a |-> "a", b |-> "b"]
          /\ NoTiles
       \/ /\ kernel = "get_feature"
          /\ noisyKind = "zero" /\ weightKind = "zero" /\ varianceKind = "zero"
          /\ NoFilter
          /\ arg = [mean |-> "mean", variance |-> "variance"]
          /\ TilesInit
       \/ /\ kernel = "divide_shadow"
          /\ noisyKind = "zero" /\ weightKind = "zero" /\ varianceKind = "zero"
          /\ NoFilter
          /\ arg = [unfiltered |-> "unfiltered", sampleVariance |-> "sampleVariance",
                    sampleVarianceV |-> "sampleVarianceV",
                    bufferVariance |-> "bufferVariance"]
          /\ TilesInit
    /\ mem = InitMem(kernel, rect, noisyKind, weightKind, varianceKind)
    /\ tpc = [p \in Pixels |-> 0]
    /\ tval = [p \in Pixels |-> FZero]
    /\ rd = [p \in Pixels |-> {}]
    /\ wr = [p \in Pixels |-> {}]
    /\ overlapped = FALSE
    /\ ParseIdle /\ BakeIdle

Running(p) == 0 < tpc[p] /\ tpc[p] < NumSteps(kernel)

InFlight == Cardinality({p \in Pixels : Running(p)})

\* p comes before q in row-major order
RowMajorBefore(p, q) == p[2] < q[2] \/ (p[2] = q[2] /\ p[1] < q[1])

\* the invocation for p runs its next statement, with effect eff; a new
\* invocation starts only when fewer than MaxInFlight are running
Advance(p, eff) ==
    /\ tpc[p] = 0 => InFlight < MaxInFlight
    /\ mem' = eff.mem
    /\ tval' = [tval EXCEPT ![p] = eff.val]
    /\ tpc' = [tpc EXCEPT ![p] = @ + 1]
    /\ rd' = [rd EXCEPT ![p] = @ \cup eff.rd]
    /\ wr' = [wr EXCEPT ![p] = @ \cup eff.wr]
    /\ overlapped' = (overlapped \/
                       (eff.wr # {} /\ \E q \in Pixels :
                            RowMajorBefore(q, p) /\ tpc[q] < NumSteps(kernel)))
    /\ UNCHANGED <<pc, nlmInputs, nlmLocals, filteredImage, contrib, passInputs,
                   cacheVars>>

NlmLoad ==
    /\ kernel = "non_local_means"
    /\ \E p \in Pixels :
          /\ tpc[p] = 0
          /\ Advance(p, NlmLoadEffect(mem, tval[p], p[1], p[2]))

NlmStore ==
    /\ kernel = "non_local_means"
    /\ \E p \in Pixels :
          /\ tpc[p] = 1
          /\ Advance(p, NlmStoreEffect(mem, tval[p], p[1], p[2]))

CombineMean ==
    /\ kernel = "combine_halves"
    /\ \E p \in Pixels :
          /\ tpc[p] = 0
          /\ Advance(p, CombineMeanEffect(mem, tval[p], p[1], p[2]))

CombineVariance ==
    /\ kernel = "combine_halves"
    /\ \E p \in Pixels :
          /\ tpc[p] = 1
          /\ Advance(p, CombineVarianceEffect(mem, tval[p], p[1], p[2]))

FeatureMean ==
    /\ kernel = "get_feature"
    /\ \E p \in Pixels :
          /\ tpc[p] = 0
          /\ Advance(p, FeatureMeanEffect(mem, tval[p], p[1], p[2]))

FeatureVariance ==
    /\ kernel = "get_feature"
    /\ \E p \in Pixels :
          /\ tpc[p] = 1
          /\ Advance(p, FeatureVarianceEffect(mem, tval[p], p[1], p[2]))

ShadowUnfiltered ==
    /\ kernel = "divide_shadow"
    /\ \E p \in Pixels :
          /\ tpc[p] = 0
          /\ Advance(p, ShadowUnfilteredEffect(mem, tval[p], p[1], p[2]))

ShadowSampleVariance ==
    /\ kernel = "divide_shadow"
    /\ \E p \in Pixels :
          /\ tpc[p] = 1
          /\ Advance(p, ShadowSampleVarianceEffect(mem, tval[p], p[1], p[2]))

ShadowBufferVariance ==
    /\ kernel = "divide_shadow"
    /\ \E p \in Pixels :
          /\ tpc[p] = 2
          /\ Advance(p, ShadowBufferVarianceEffect(mem, tval[p], p[1], p[2]))

PassNext ==
    \/ NlmLoad
    \/ NlmStore
    \/ CombineMean
    \/ CombineVariance
    \/ FeatureMean
    \/ FeatureVariance
    \/ ShadowUnfiltered
    \/ ShadowSampleVariance
    \/ ShadowBufferVariance

SpecPass == PassInit /\ [][PassNext]_vars

(***************************************************************************)
(* Properties of kernel_filter_non_local_means                             *)
(***************************************************************************)
\* the clipped search window, written out from the rect and the radius
WinLowX == IF rect.x > x - r THEN rect.x ELSE x - r

WinLowY == IF rect.y > y - r THEN rect.y ELSE y - r

WinHighX == IF rect.z < x + r + 1 THEN rect.z ELSE x + r + 1

WinHighY == IF rect.w < y + r + 1 THEN rect.w ELSE y + r + 1

WinCount == (WinHighX - WinLowX) * (WinHighY - WinLowY)

RowLen == align_up(rect.z - rect.x, 4)

IdxInBuffer(i) ==
    /\ 0 <= i
    /\ i < RowLen * (rect.w - rect.y)
    /\ i % RowLen < rect.z - rect.x

\* C1: whenever the patch loop body is about to read weightImage and variance,
\* both p + (dx, dy) and q + (dx, dy) lie inside rect, and the two indices
\* p_idx + dIdx and q_idx + dIdx lie in [0, align_up(width, 4) * height) at a
\* column below width.
C1_PatchReadsInBounds ==
    (pc = "dx_loop" /\ dx < high_dPatch.x) =>
        /\ InRect(rect, x + dx, y + dy)
        /\ InRect(rect, qx + dx, qy + dy)
        /\ IdxInBuffer(p_idx + dIdx)
        /\ IdxInBuffer(q_idx + dIdx)

\* a patch offset is read for a q other than p whose patch is clipped by the
\* rect on the second patch row
C1_Witness ==
    /\ pc = "dx_loop" /\ dx < high_dPatch.x
    /\ f = 1 /\ r = 1
    /\ <<qx, qy>> # <<x, y>>
    /\ high_dPatch.x - low_dPatch.x < 2 * f + 1
    /\ dy > low_dPatch.y
    /\ rect.x > 0

\* C2: the q's that contribute to sum_image and sum_weight are exactly the
\* pixels of the search window clipped to rect, in row-major order, each
\* once, each read from noisyImage at its own index inside rect; when the
\* loops are left their number is that of the clipped window.
C2_ContribIsClippedWindow ==
    /\ WinHighX > WinLowX
    /\ \A i \in 1..Len(contrib) :
          /\ contrib[i].qx = WinLowX + ((i - 1) % (WinHighX - WinLowX))
          /\ contrib[i].qy = WinLowY + ((i - 1) \div (WinHighX - WinLowX))
          /\ InRect(rect, contrib[i].qx, contrib[i].qy)
          /\ contrib[i].q_idx =
                 (contrib[i].qy - rect.y) * RowLen + (contrib[i].qx - rect.x)
    /\ pc \in {"write", "done"} => Len(contrib) = WinCount

\* the kernel has finished at the lower corner of a rect of 2 x 2 pixels or
\* more with r = 1: 4 contributions, not 9
C2_Witness ==
    /\ pc = "done"
    /\ x = rect.x /\ y = rect.y /\ r = 1
    /\ rect.z - rect.x >= 2 /\ rect.w - rect.y >= 2
    /\ Len(contrib) = 4

\* C3: when the division of line 143 is executed, p itself has contributed
\* and sum_weight is strictly positive.
C3_SumWeightPositive ==
    pc = "write" =>
        /\ \E i \in 1..Len(contrib) : contrib[i].qx = x /\ contrib[i].qy = y
        /\ FLt(FZero, sum_weight)

\* the division is reached with p as the only candidate and a self-weight
\* below 1
C3_Witness ==
    /\ pc = "write"
    /\ r = 0
    /\ Len(contrib) = 1
    /\ FLt(sum_weight, F1)

SelfWeightIsOne ==
    \A i \in 1..Len(contrib) :
        (contrib[i].qx = x /\ contrib[i].qy = y) =>
            /\ ~FLt(FZero, contrib[i].dI)
            /\ contrib[i].arg = FZero
            /\ contrib[i].wI = F1

\* C4 as stated: for all contents of the images and all a and k_2, the
\* patch distance of q = p is not positive and its weight is 1.
C4_SelfWeightAlwaysOne == SelfWeightIsOne

NonNegativeInputs ==
    /\ FLe(FZero, a)
    /\ FLe(FZero, k_2)
    /\ \A i \in DOMAIN variance : FLe(FZero, variance[i])

\* C4 (amended): when a, k_2 and every variance value are not negative, the
\* patch distance of q = p is not positive and its weight is 1.
C4_SelfWeightOneNonNegative == NonNegativeInputs => SelfWeightIsOne

\* q = p has contributed with a strictly negative patch distance, clamped
C4_Witness ==
    /\ NonNegativeInputs
    /\ \E i \in 1..Len(contrib) :
          /\ contrib[i].qx = x /\ contrib[i].qy = y
          /\ FLt(contrib[i].dI, FZero)
          /\ contrib[i].wI = F1

\* noisyImage and weightImage equal one constant on rect, variance is 0 there
UniformScene ==
    \A px \in rect.x..(rect.z - 1), py \in rect.y..(rect.w - 1) :
        LET i == (py - rect.y) * RowLen + (px - rect.x)
            c == noisyImage[(y - rect.y) * RowLen + (x - rect.x)]
        IN noisyImage[i] = c /\ weightImage[i] = c /\ variance[i] = FZero

UniformValue == noisyImage[(y - rect.y) * RowLen + (x - rect.x)]

FilteredAtP == filteredImage[(y - rect.y) * RowLen + (x - rect.x)]

\* k * c is a float
ExactMultiple(k, c) ==
    LET M == k * Abs(c[1])
    IN M < Pow2(MantBits) \/ M % Pow2(BitLen(M) - MantBits) = 0

\* C5 as stated: on a uniform scene of value C the kernel writes exactly C.
C5_UniformGivesConstant ==
    (pc = "done" /\ UniformScene) => FilteredAtP = UniformValue

\* C5 (amended): on a uniform scene of value C the kernel writes exactly C
\* whenever every multiple k * C, k up to the number of pixels of the clipped
\* search window, is a float (as for C = 5).
C5_UniformGivesConstantIfExact ==
    (/\ pc = "done"
     /\ UniformScene
     /\ \A k \in 1..WinCount : ExactMultiple(k, UniformValue))
        => FilteredAtP = UniformValue

\* the spec's scenario: C = 5, a = 1, k_2 = 1, r = 1, f = 1, rect at (0, 0),
\* a window of several pixels
C5_Witness ==
    /\ pc = "done"
    /\ UniformScene
    /\ UniformValue = FromInt(5)
    /\ rect.x = 0 /\ rect.y = 0
    /\ r = 1 /\ f = 1 /\ a = F1 /\ k_2 = F1
    /\ WinCount >= 4
    /\ FilteredAtP = FromInt(5)

\* C6: the argument of the exponential is never positive and every weight
\* lies in (0, 1]; a negative patch distance gives the weight 1.
C6_WeightsInUnitInterval ==
    \A i \in 1..Len(contrib) :
        /\ FLe(contrib[i].arg, FZero)
        /\ FLt(FZero, contrib[i].wI)
        /\ FLe(contrib[i].wI, F1)
        /\ FLt(contrib[i].dI, FZero) => contrib[i].wI = F1

\* a candidate other than p with a negative patch distance, and one with a
\* weight below 1, have contributed
C6_Witness ==
    /\ \E i \in 1..Len(contrib) :
          /\ <<contrib[i].qx, contrib[i].qy>> # <<x, y>>
          /\ FLt(contrib[i].dI, FZero)
    /\ \E i \in 1..Len(contrib) : FLt(contrib[i].wI, F1)

\* the stepwise kernel and the kernel as a function store the same value
NlmStepsAgree ==
    pc = "done" =>
        FilteredAtP = nlm_result(noisyImage, weightImage, variance, rect,
                                 x, y, r, f, a, k_2)

(***************************************************************************)
(* Properties of a pass of per-pixel invocations                           *)
(***************************************************************************)
\* the slots of a set of stores, without the line of the store
Written(stores) == {[buf |-> s.buf, slot |-> s.slot] : s \in stores}

AllDone == \A p \in Pixels : tpc[p] = NumSteps(kernel)

\* the buffers a kernel reads through its parameters
InputBuffers ==
    CASE kernel = "non_local_means" ->
           {arg.noisyImage, arg.weightImage, arg.variance}
      [] kernel = "combine_halves" -> {arg.a, arg.b}
      [] OTHER -> {}

\* the buffers a kernel writes through its parameters
OutputBuffers ==
    CASE kernel = "non_local_means" -> {arg.filteredImage}
      [] kernel = "combine_halves" -> {arg.mean, arg.variance} \ {"null"}
      [] kernel = "get_feature" -> {arg.mean, arg.variance}
      [] OTHER -> {arg.unfiltered, arg.sampleVariance, arg.sampleVarianceV,
                   arg.bufferVariance}

OutputsDistinct == OutputBuffers \cap InputBuffers = {}

\* the destination index of pixel p, from its coordinates
DestIdx(p) == (p[2] - rect.y) * RowLen + (p[1] - rect.x)

\* the memory before the pass
MemBefore == InitMem(kernel, rect, noisyKind, weightKind, varianceKind)

NoWriteConflict ==
    \A p \in Pixels : \A q \in Pixels \ {p} :
        Written(wr[p]) \cap Written(wr[q]) = {}

NoReadOfForeignWrite ==
    \A p \in Pixels : \A q \in Pixels \ {p} :
        rd[p] \cap Written(wr[q]) = {}

SameAsRowMajorPass ==
    AllDone => mem = SequentialPass(kernel, MemBefore, Cardinality(Pixels))

NlmWritesOwnPixelOnly ==
    kernel = "non_local_means" =>
        \A p \in Pixels :
            Written(wr[p]) \subseteq
                {[buf |-> arg.filteredImage, slot |-> DestIdx(p)]}

\* C7: when the kernel is invoked once for every pixel of rect in any
\* interleaving and the output buffers are distinct from the buffers read, no
\* two invocations for different pixels write the same slot, no invocation
\* reads a slot another invocation writes, the buffers after the pass are those
\* of a sequential row-major pass, and an invocation of the non-local means
\* filter writes only filteredImage at its own pixel.
C7_InterleavedPassIsSequential ==
    OutputsDistinct =>
        /\ NoWriteConflict
        /\ NoReadOfForeignWrite
        /\ SameAsRowMajorPass
        /\ NlmWritesOwnPixelOnly

\* a finished pass of the filter with separate output in which a pixel stored
\* before an earlier pixel of the row-major order had finished, and in which
\* every pixel read its neighbours
C7_Witness ==
    /\ kernel = "non_local_means"
    /\ OutputsDistinct
    /\ AllDone
    /\ overlapped
    /\ Cardinality(Pixels) >= 4
    /\ r >= 1

\* without the condition on the buffers the pass may differ from the
\* sequential one (filtering in place)
PassAlwaysSequential == NoReadOfForeignWrite /\ SameAsRowMajorPass

BufferLen == RowLen * (rect.w - rect.y)

FirstHalfStores(p) == {s \in wr[p] : s.line # 39}

SecondHalfStores(p) == {s \in wr[p] : s.line = 39}

\* C8: for every pixel of rect the destination index
\* (y - rect.y) * align_up(width, 4) + (x - rect.x) lies in
\* [0, align_up(width, 4) * height) and distinct pixels get distinct indices;
\* the second-half slot idx + Bofs of kernel_filter_divide_shadow lies in
\* [align_up(width, 4) * height, 2 * align_up(width, 4) * height) and is the
\* first-half slot of no pixel of rect.
C8_DestinationIndex ==
    /\ \A p \in Pixels : \A s \in FirstHalfStores(p) :
          /\ s.slot = DestIdx(p)
          /\ 0 <= s.slot /\ s.slot < BufferLen
    /\ \A p \in Pixels : \A q \in Pixels \ {p} :
          \A s \in FirstHalfStores(p) : \A t \in FirstHalfStores(q) :
              s.slot # t.slot
    /\ \A p \in Pixels : \A s \in SecondHalfStores(p) :
          /\ BufferLen <= s.slot /\ s.slot < 2 * BufferLen
          /\ \A q \in Pixels : s.slot # DestIdx(q)

\* two pixels of the same row and two of the same column of a padded rect
\* have stored both halves of unfiltered
C8_Witness ==
    /\ kernel = "divide_shadow"
    /\ RowLen > rect.z - rect.x
    /\ \E p \in Pixels : \E q \in Pixels :
          /\ p[1] # q[1] /\ p[2] # q[2]
          /\ \A o \in {p, q, <<p[1], q[2]>>, <<q[1], p[2]>>} :
                SecondHalfStores(o) # {} /\ FirstHalfStores(o) # {}

TileKernel == kernel \in {"get_feature", "divide_shadow"}

\* the reads of pixel p from the tile buffers
TileReads(p) == {s \in rd[p] : s.buf = "buffers"}

\* 0 if c is below the second bound, 1 if below the third, else 2
BandByThreshold(bounds, c) ==
    IF c < bounds[1] THEN 0 ELSE (IF c < bounds[2] THEN 1 ELSE 2)

NonDecreasing(bounds) == \A k \in 0..2 : bounds[k] <= bounds[k + 1]

\* coordinates around the tile grid, inside and outside
NearbyCoords == (-1)..(MaxPassWidth + 4)

\* C9: the tile read by kernel_filter_divide_shadow and
\* kernel_filter_get_feature is ytile * 3 + xtile, with xtile = 0 if
\* x < tile_x[1], 1 if x < tile_x[2], else 2 (the same for y and tile_y); it is
\* in 0..8 for any x and y, and when tile_x and tile_y are non-decreasing a
\* pixel with tile_x[k] <= x < tile_x[k+1] and tile_y[j] <= y < tile_y[j+1] is
\* read from tile j * 3 + k.
C9_TileIndex ==
    TileKernel =>
        /\ \A p \in Pixels : \A s \in TileReads(p) :
              /\ s.tile = BandByThreshold(tile_y, p[2]) * 3
                            + BandByThreshold(tile_x, p[1])
              /\ s.tile \in 0..8
              /\ (NonDecreasing(tile_x) /\ NonDecreasing(tile_y)) =>
                    \A k \in 0..2 : \A j \in 0..2 :
                        (/\ tile_x[k] <= p[1] /\ p[1] < tile_x[k + 1]
                         /\ tile_y[j] <= p[2] /\ p[2] < tile_y[j + 1])
                            => s.tile = j * 3 + k
        /\ \A px \in NearbyCoords : \A py \in NearbyCoords :
              tile_of(px, py) \in 0..8

\* two pixels have been read from different tiles of a non-decreasing grid
C9_Witness ==
    /\ TileKernel
    /\ NonDecreasing(tile_x) /\ NonDecreasing(tile_y)
    /\ \E p \in Pixels : \E q \in Pixels :
          \E s \in TileReads(p) : \E t \in TileReads(q) :
              s.tile # t.tile /\ s.tile # 4 /\ t.tile # 4

\* without the condition on tile_x and tile_y the bands do not give the tile
TileFromBandsAlways ==
    TileKernel =>
        \A p \in Pixels : \A s \in TileReads(p) :
            \A k \in 0..2 : \A j \in 0..2 :
                (/\ tile_x[k] <= p[1] /\ p[1] < tile_x[k + 1]
                 /\ tile_y[j] <= p[2] /\ p[2] < tile_y[j + 1])
                    => s.tile = j * 3 + k

ShadowDone(p) == kernel = "divide_shadow" /\ tpc[p] = NumSteps("divide_shadow")

\* the tile buffers, tile_x, tile_y, offset and stride are as before the pass
ShadowInputsUnchanged ==
    /\ tile_x = TileBounds(rect.x, rect.z, xsplit)
    /\ tile_y = TileBounds(rect.y, rect.w, ysplit)
    /\ stride = [t \in 0..8 |-> tile_x[(t % 3) + 1] - tile_x[t % 3]]
    /\ offset = [t \in 0..8 |->
                   -(tile_x[t % 3] + tile_y[t \div 3] * stride[t])]
    /\ buffers = [t \in 0..8 |->
                    MakeTileBuffer(tileKind, tile_x, tile_y, pass_stride,
                                   pass_denoising, t)]

\* every slot no invocation has stored to holds what it held before the pass
OtherSlotsUnchanged ==
    \A name \in DOMAIN mem : \A i \in DOMAIN mem[name] :
        ([buf |-> name, slot |-> i] \notin
            UNION {Written(wr[p]) : p \in Pixels})
          => mem[name][i] = MemBefore[name][i]

\* C10 as stated: one call of kernel_filter_divide_shadow writes exactly 4
\* output locations, 2 of them in unfiltered, mutates none of its inputs and
\* leaves every other slot of every output buffer unchanged.
C10_WritesFourLocations ==
    kernel = "divide_shadow" =>
        /\ \A p \in Pixels : ShadowDone(p) =>
              /\ Cardinality(Written(wr[p])) = 4
              /\ Cardinality({s \in Written(wr[p]) : s.buf = arg.unfiltered}) = 2
        /\ ShadowInputsUnchanged
        /\ OtherSlotsUnchanged

\* C10: one call of kernel_filter_divide_shadow writes exactly 5 output
\* locations: unfiltered[idx] and unfiltered[idx + Bofs], sampleVariance[idx],
\* sampleVarianceV[idx] and bufferVariance[idx]; it mutates none of its inputs
\* (the tile buffers, tile_x, tile_y, offset, stride) and leaves every other
\* slot of every output buffer unchanged.
C10_WritesFiveLocations ==
    kernel = "divide_shadow" =>
        /\ \A p \in Pixels : ShadowDone(p) =>
              /\ Cardinality(Written(wr[p])) = 5
              /\ Written(wr[p]) =
                    {[buf |-> arg.unfiltered, slot |-> DestIdx(p)],
                     [buf |-> arg.unfiltered, slot |-> DestIdx(p) + BufferLen],
                     [buf |-> arg.sampleVariance, slot |-> DestIdx(p)],
                     [buf |-> arg.sampleVarianceV, slot |-> DestIdx(p)],
                     [buf |-> arg.bufferVariance, slot |-> DestIdx(p)]}
        /\ ShadowInputsUnchanged
        /\ OtherSlotsUnchanged

\* one call has finished while the other pixels of rect have not started
C10_Witness ==
    /\ \E p \in Pixels :
          /\ ShadowDone(p)
          /\ \A q \in Pixels \ {p} : tpc[q] = 0
    /\ Cardinality(Pixels) >= 2

(***************************************************************************)
(* Properties of the values written by kernel_filter_divide_shadow,        *)
(* kernel_filter_get_feature and kernel_filter_combine_halves              *)
(***************************************************************************)
\* the denominator of a shadow ratio whose accumulator is acc
FlooredDenominator(acc) == IF FLt(FEps, acc) THEN acc ELSE FEps

ShadowRatiosStored(p) == kernel = "divide_shadow" /\ tpc[p] = 1

\* C11: the denominator of each shadow ratio of kernel_filter_divide_shadow
\* is max(center_buffer[14], 1e-7) (resp. center_buffer[17]) and is strictly
\* positive for every accumulator value, zero and negative included; with
\* center_buffer[14] = 0 the value written to unfiltered[idx] is
\* center_buffer[15] / 1e-7, and no division is by zero.
C11_ShadowDenominatorFloored ==
    \A p \in Pixels : ShadowRatiosStored(p) =>
        LET accA == CB(p[1], p[2], 14)
            accB == CB(p[1], p[2], 17)
            outA == mem[arg.unfiltered][DestIdx(p)]
            outB == mem[arg.unfiltered][DestIdx(p) + BufferLen]
        IN /\ FLt(FZero, FlooredDenominator(accA))
           /\ FLt(FZero, FlooredDenominator(accB))
           /\ outA = FDiv(CB(p[1], p[2], 15), FlooredDenominator(accA))
           /\ outB = FDiv(CB(p[1], p[2], 18), FlooredDenominator(accB))
           /\ outA # NaN /\ outB # NaN
           /\ accA = FZero => outA = FDiv(CB(p[1], p[2], 15), FEps)

\* the ratios of a pixel with a zero accumulator and of one with a negative
\* accumulator have been stored
C11_Witness ==
    /\ \E p \in Pixels :
          ShadowRatiosStored(p) /\ CB(p[1], p[2], 14) = FZero
                                /\ CB(p[1], p[2], 15) # FZero
    /\ \E q \in Pixels :
          ShadowRatiosStored(q) /\ FLt(CB(q[1], q[2], 14), FZero)

\* the float nearest to the mathematical product n * (n - 1), for n below
\* 2^MantBits
ProductOfSample(n) == FMul(FromInt(n), FromInt(n - 1))

\* the invocation of kernel_filter_get_feature for p has run line 67
FeatureVarianceStored(p) == kernel = "get_feature" /\ tpc[p] = 2

\* the invocation of kernel_filter_divide_shadow for p has run lines 40-42
ShadowVarFacFormed(p) == kernel = "divide_shadow" /\ tpc[p] >= 2

DivisorIsProduct(p) ==
    /\ FeatureVarianceStored(p) =>
          /\ tval[p] = ProductOfSample(sample)
          /\ FLt(FZero, tval[p])
          /\ mem[arg.variance][DestIdx(p)] =
                FDiv(CB(p[1], p[2], v_offset), ProductOfSample(sample))
          /\ sample = 2 =>
                mem[arg.variance][DestIdx(p)] =
                    FMul(FHalf, CB(p[1], p[2], v_offset))
    /\ ShadowVarFacFormed(p) =>
          /\ tval[p] = FDiv(F1, ProductOfSample(sample))
          /\ FLt(FZero, tval[p])

DivisorZeroOnlyBelowTwo(p) ==
    /\ FeatureVarianceStored(p) => (tval[p] = FZero <=> sample \in {0, 1})
    /\ ShadowVarFacFormed(p) => (tval[p] = NaN <=> sample \in {0, 1})

\* C12 as stated: for every sample count >= 2 the int divisor
\* sample * (sample - 1) of kernel_filter_divide_shadow and
\* kernel_filter_get_feature equals the mathematical product and is positive,
\* so variance[idx] = raw_variance / (sample * (sample - 1)) (raw / 2 at
\* sample = 2) and varFac is positive; the divisor is zero exactly when
\* sample is 0 or 1.
C12_DivisorIsProduct ==
    \A p \in Pixels :
        /\ sample >= 2 => DivisorIsProduct(p)
        /\ DivisorZeroOnlyBelowTwo(p)

\* the largest sample count whose product with its predecessor is an int
MaxExactSample == CHOOSE n \in 46300..46400 :
                     int_mul(n, n - 1).fits /\ ~int_mul(n + 1, n).fits

\* the part of C12 that holds: for 2 <= sample <= MaxExactSample the divisor
\* is the product, and for every sample it is zero exactly at 0 and 1
C12_DivisorIsProductWhileItFits ==
    \A p \in Pixels :
        /\ (sample >= 2 /\ sample <= MaxExactSample) => DivisorIsProduct(p)
        /\ DivisorZeroOnlyBelowTwo(p)

\* line 67 has run with the first sample count whose product overflows, in a
\* build that wraps, and the divisor is negative
C12_Witness ==
    \E p \in Pixels :
        /\ FeatureVarianceStored(p)
        /\ sample = MaxExactSample + 1
        /\ overflow = "wrap"
        /\ FLt(tval[p], FZero)

\* the invocation of kernel_filter_combine_halves for p has returned
CombineDone(p) == kernel = "combine_halves" /\ tpc[p] = 2

\* the same call with a and b swapped
SwappedArg == [arg EXCEPT !.a = arg.b, !.b = arg.a]

HalfA(p) == MemBefore[arg.a][DestIdx(p)]

HalfB(p) == MemBefore[arg.b][DestIdx(p)]

FTwo == FromInt(2)

\* C13: kernel_filter_combine_halves is symmetric in its two half buffers:
\* for every pixel, the call with a and b swapped writes the same
\* mean[idx] = (a + b) / 2 and the same variance[idx] = (a - b)^2 / 2, and the
\* variance written is never negative (mean and variance being buffers other
\* than a and b).
C13_CombineHalvesSymmetric ==
    (kernel = "combine_halves" /\ OutputsDistinct) =>
        \A p \in Pixels : CombineDone(p) =>
            LET idx     == DestIdx(p)
                swapped == combine_halves(MemBefore, SwappedArg, idx)
                diff    == FSub(HalfA(p), HalfB(p))
            IN /\ arg.mean # "null" =>
                     /\ mem[arg.mean][idx] = swapped[arg.mean][idx]
                     /\ mem[arg.mean][idx] =
                            FDiv(FAdd(HalfA(p), HalfB(p)), FTwo)
               /\ arg.variance # "null" =>
                     /\ mem[arg.variance][idx] = swapped[arg.variance][idx]
                     /\ mem[arg.variance][idx] = FDiv(FMul(diff, diff), FTwo)
                     /\ FLe(FZero, mem[arg.variance][idx])

\* both outputs of a pixel whose halves differ by an inexact amount have
\* been written
C13_Witness ==
    /\ kernel = "combine_halves"
    /\ OutputsDistinct
    /\ arg.mean # "null" /\ arg.variance # "null"
    /\ \E p \in Pixels :
          /\ CombineDone(p)
          /\ HalfA(p) # HalfB(p)
          /\ HalfB(p) = F09
          /\ FLt(FZero, mem[arg.variance][DestIdx(p)])

\* what the call for p leaves in variance[idx] agrees with the call made for
\* the variance alone and with the call that also asks for a separate mean
VarianceUnaffectedByMean(p) ==
    arg.variance # "null" =>
        /\ mem[arg.variance][DestIdx(p)] =
              combine_halves(MemBefore, [arg EXCEPT !.mean = "null"],
                             DestIdx(p))[arg.variance][DestIdx(p)]
        /\ mem[arg.variance][DestIdx(p)] =
              combine_halves(MemBefore, [arg EXCEPT !.mean = "mean"],
                             DestIdx(p))[arg.variance][DestIdx(p)]

\* a null pointer skips its store and only its store
NullSkipsOnlyItsStore(p) ==
    wr[p] = (IF arg.mean = "null" THEN {}
             ELSE {Store(arg.mean, DestIdx(p), 77)})
              \cup (IF arg.variance = "null" THEN {}
                    ELSE {Store(arg.variance, DestIdx(p), 78)})

\* C14 as stated: the two outputs of kernel_filter_combine_halves are
\* independent: a null mean (resp. variance) skips only that write, with both
\* null nothing is written, and variance[idx] is the same whether or not mean
\* is requested, for every choice of the buffers passed as mean, variance, a
\* and b.
C14_OutputsIndependentAnyBuffers ==
    kernel = "combine_halves" =>
    \A p \in Pixels : CombineDone(p) =>
        /\ NullSkipsOnlyItsStore(p)
        /\ (arg.mean = "null" /\ arg.variance = "null") => wr[p] = {}
        /\ VarianceUnaffectedByMean(p)

\* C14: the same, for every choice of the buffers in which mean is neither
\* the buffer passed as a nor the one passed as b.
C14_OutputsIndependent ==
    (kernel = "combine_halves" /\ arg.mean \notin {arg.a, arg.b}) =>
        \A p \in Pixels : CombineDone(p) =>
            /\ NullSkipsOnlyItsStore(p)
            /\ (arg.mean = "null" /\ arg.variance = "null") => wr[p] = {}
            /\ VarianceUnaffectedByMean(p)

\* a call with a null mean has written the variance of two different halves
C14_Witness ==
    /\ kernel = "combine_halves"
    /\ arg.mean = "null" /\ arg.variance # "null"
    /\ \E p \in Pixels :
          /\ CombineDone(p)
          /\ HalfA(p) # HalfB(p)
          /\ wr[p] # {}

(***************************************************************************)
(* The indices and the result of kernel_filter_non_local_means             *)
(***************************************************************************)
\* C17: at every execution of the patch inner-loop body of
\* kernel_filter_non_local_means the incrementally updated indices track the
\* coordinates: q_idx = (qy - rect.y) * w + (qx - rect.x) and
\* dIdx = dy * w + dx with w = align_up(width, 4), also after the row-wrap
\* corrections of lines 132 and 140.
C17_IndicesTrackCoordinates ==
    (pc = "dx_loop" /\ dx < high_dPatch.x) =>
        /\ w = RowLen
        /\ q_idx = (qy - rect.y) * RowLen + (qx - rect.x)
        /\ dIdx = dy * RowLen + dx

\* the body runs after both corrections: q is in the second row of a window
\* narrower than the buffer row, the offset in a later row of its patch
C17_Witness ==
    /\ pc = "dx_loop" /\ dx < high_dPatch.x
    /\ qy > low.y /\ qx > low.x
    /\ dy > low_dPatch.y /\ dx > low_dPatch.x
    /\ high.x - low.x < w
    /\ high_dPatch.x - low_dPatch.x < w
    /\ low_dPatch.x < 0
    /\ rect.x > 0

\* the noisyImage values of the candidates of the clipped search window
WindowValues == {Rd(noisyImage, contrib[i].q_idx) : i \in 1..Len(contrib)}

WindowMin == CHOOSE v \in WindowValues : \A u \in WindowValues : FLe(v, u)

WindowMax == CHOOSE v \in WindowValues : \A u \in WindowValues : FLe(u, v)

FAbs(v) == IF FLt(v, FZero) THEN FNeg(v) ELSE v

RECURSIVE FSum(_, _)
\* noisyImage summed over the first n candidates, in the order of the loops
FSum(n, acc) ==
    IF n = 0 THEN acc
    ELSE FAdd(FSum(n - 1, acc), Rd(noisyImage, contrib[n].q_idx))

\* the arithmetic mean over the window, formed in float
WindowMean == FDiv(FSum(Len(contrib), FZero), FromInt(Len(contrib)))

AllWeightsEqual == \A i \in 1..Len(contrib) : contrib[i].wI = contrib[1].wI

\* the rounding allowance: one unit in the last place of the largest
\* magnitude in the window for every rounded operation of lines 137-143
\* (a product and two additions per candidate, one division)
RoundingSlack ==
    FMul(FMax(FAbs(WindowMin), FAbs(WindowMax)),
         FromScaled(3 * Len(contrib) + 1, MantBits - 1))

WithinSlack(u, v) ==
    /\ FLe(FSub(v, RoundingSlack), u)
    /\ FLe(u, FAdd(v, RoundingSlack))

\* C18 as stated: the value written to filteredImage at p lies between the
\* minimum and the maximum of noisyImage over the clipped search window, and
\* is the arithmetic mean over the window when all weights are equal.
C18_ConvexCombination ==
    pc = "done" =>
        /\ FLe(WindowMin, FilteredAtP)
        /\ FLe(FilteredAtP, WindowMax)
        /\ AllWeightsEqual => FilteredAtP = WindowMean

\* C18 (amended): the value written lies between the minimum and the maximum
\* of noisyImage over the clipped search window up to the rounding of the
\* float operations of lines 137-143, and within the same allowance of the
\* arithmetic mean over the window when all weights are equal; when all
\* weights are 1 it is exactly the float sum of the window divided by the
\* number of candidates.
C18_ConvexCombinationUpToRounding ==
    pc = "done" =>
        /\ \A i \in 1..Len(contrib) : FLt(FZero, contrib[i].wI)
        /\ FLt(FZero, sum_weight)
        /\ FLe(FSub(WindowMin, RoundingSlack), FilteredAtP)
        /\ FLe(FilteredAtP, FAdd(WindowMax, RoundingSlack))
        /\ AllWeightsEqual => WithinSlack(FilteredAtP, WindowMean)
        /\ (\A i \in 1..Len(contrib) : contrib[i].wI = F1)
               => FilteredAtP = WindowMean

\* a window of several candidates with different values and different
\* weights has been filtered, the result strictly inside the range
C18_Witness ==
    /\ pc = "done"
    /\ Len(contrib) >= 4
    /\ ~AllWeightsEqual
    /\ FLt(WindowMin, FilteredAtP)
    /\ FLt(FilteredAtP, WindowMax)

(***************************************************************************)
(* parse_slices: the "frames" string of the archive-slice operator         *)
(***************************************************************************)
MaxStrLen == 4

MaxRanges == 2

filterVars == <<pc, nlmInputs, nlmLocals, filteredImage, contrib, passVars>>

\* no kernel of the filter is running
FilterIdle ==
    /\ pc = "cache"
    /\ rect = [x |-> 0, y |-> 0, z |-> 0, w |-> 0]
    /\ noisyKind = "zero" /\ weightKind = "zero" /\ varianceKind = "zero"
    /\ NlmIdle
    /\ NoFilter

\* a string is the sequence of its characters; "." stands for every
\* character that is neither whitespace, sign, digit nor comma
Alphabet == {"0", "1", "-", ".", ",", " "}

DigitChars == <<"0", "1", "2", "3", "4", "5", "6", "7", "8", "9">>

isdigit(c) == \E d \in 1..Len(DigitChars) : DigitChars[d] = c

DigitValue(c) == (CHOOSE d \in 1..Len(DigitChars) : DigitChars[d] = c) - 1

isspace(c) == c = " "

\* *c, the terminating NUL behind the last character
At(st, c) == IF c \in 1..Len(st) THEN st[c] ELSE "NUL"

RECURSIVE parse_whitespace(_, _)
parse_whitespace(st, c) ==
    IF At(st, c) # "NUL" /\ isspace(At(st, c))
    THEN parse_whitespace(st, c + 1)
    ELSE c

RECURSIVE LiteralLoop(_, _, _, _)
\* the loop of lines 640-645; k is the position in lit
LiteralLoop(st, c, lit, k) ==
    IF At(st, c) # "NUL" /\ k <= Len(lit)
    THEN IF At(st, c) # lit[k]
         THEN [mismatch |-> TRUE, c |-> c, k |-> k]
         ELSE LiteralLoop(st, c + 1, lit, k + 1)
    ELSE [mismatch |-> FALSE, c |-> c, k |-> k]

\* the result and the new *s
parse_literal(st, p, lit) ==
    IF lit = <<>> THEN [ok |-> TRUE, s |-> p]
    ELSE LET l == LiteralLoop(st, parse_whitespace(st, p), lit, 1)
         IN IF l.mismatch THEN [ok |-> FALSE, s |-> p]
            ELSE [ok |-> l.k > Len(lit), s |-> l.c]

RECURSIVE DigitsEnd(_, _)
DigitsEnd(st, c) == IF isdigit(At(st, c)) THEN DigitsEnd(st, c + 1) ELSE c

RECURSIVE DigitsValue(_, _, _)
\* the decimal value of st[from], ..., st[to - 1]
DigitsValue(st, from, to) ==
    IF to <= from THEN 0
    ELSE DigitsValue(st, from, to - 1) * 10 + DigitValue(st[to - 1])

\* strtol(s, &end, 10): whitespace, an optional sign, digits; without digits
\* end is s and the value 0 (the strings of the model are too short for a
\* value outside int)
strtol(st, p) ==
    LET c0 == parse_whitespace(st, p)
        c1 == IF At(st, c0) \in {"-", "+"} THEN c0 + 1 ELSE c0
        c2 == DigitsEnd(st, c1)
    IN IF c2 = c1 THEN [val |-> 0, end |-> p]
       ELSE [val |-> (IF At(st, c0) = "-" THEN -1 ELSE 1) * DigitsValue(st, c1, c2),
             end |-> c2]

parse_int(st, p) ==
    LET t == strtol(st, p)
    IN [found |-> t.end # p, s |-> t.end, i |-> t.val]

parse_range(st, p) ==
    LET i1 == parse_int(st, p)
        l  == parse_literal(st, i1.s, <<"-">>)
        i2 == parse_int(st, l.s)
    IN IF ~i1.found THEN [ok |-> FALSE, s |-> i1.s, start |-> 0, end |-> 0]
       ELSE IF ~l.ok THEN [ok |-> FALSE, s |-> l.s, start |-> i1.i, end |-> 0]
       ELSE [ok |-> i2.found, s |-> i2.s, start |-> i1.i, end |-> i2.i]

\* the frame numbers of the written ranges
Frames == {-3, 0, 12}

Ranges == [start : Frames, end : Frames]

RangeLists == UNION {[1..k -> Ranges] : k \in 1..MaxRanges}

RECURSIVE FormatNat(_)
FormatNat(n) ==
    IF n < 10 THEN <<DigitChars[n + 1]>>
    ELSE Append(FormatNat(n \div 10), DigitChars[(n % 10) + 1])

FormatInt(n) == IF n < 0 THEN <<"-">> \o FormatNat(-n) ELSE FormatNat(n)

FormatRange(rg, sep) == FormatInt(rg.start) \o sep \o FormatInt(rg.end)

RECURSIVE FormatSlices(_, _, _)
\* the ranges written one after the other, join between them
FormatSlices(rs, sep, join) ==
    IF Len(rs) = 1 THEN FormatRange(rs[1], sep)
    ELSE FormatSlices(SubSeq(rs, 1, Len(rs) - 1), sep, join)
             \o join \o FormatRange(rs[Len(rs)], sep)

\* "..", as the description of the property writes a range, and "-"
Separators == {<<".", ".">>, <<"-">>}

Joins == {<<",">>, <<",", " ">>}

\* the strings parse_slices is called with
FrameStrings ==
    (UNION {[1..k -> Alphabet] : k \in 0..MaxStrLen})
        \cup {FormatSlices(rs, sep, j) : rs \in RangeLists, sep \in Separators,
                                         j \in Joins}

ParseInit ==
    /\ ppc = "loop"
    /\ str \in FrameStrings
    /\ s_ofs = 1
    /\ slices = <<>>
    /\ parsed = FALSE
    /\ BakeIdle
    /\ FilterIdle
    /\ PassIdle

\* lines 693-694: parse_range fails
ParseSlicesReject ==
    /\ ppc = "loop"
    /\ LET rg == parse_range(str, s_ofs)
       IN /\ ~rg.ok
          /\ s_ofs' = rg.s
    /\ parsed' = FALSE
    /\ ppc' = "returned"
    /\ UNCHANGED <<str, slices, bakeVars, filterVars>>

\* lines 693-703: one round of the loop that adds a slice
ParseSlicesAdd ==
    /\ ppc = "loop"
    /\ LET rg  == parse_range(str, s_ofs)
           lit == parse_literal(str, rg.s, <<",">>)
       IN /\ rg.ok
          /\ slices' = Append(slices, [start |-> rg.start, end |-> rg.end])
          /\ s_ofs' = lit.s
          /\ IF lit.ok /\ At(str, lit.s) # "NUL"
             THEN ppc' = "loop" /\ parsed' = parsed
             ELSE ppc' = "returned" /\ parsed' = TRUE
    /\ UNCHANGED <<str, bakeVars, filterVars>>

ParseNext ==
    \/ ParseSlicesReject
    \/ ParseSlicesAdd

SpecParse == ParseInit /\ [][ParseNext]_vars

\* the ranges are accepted when written with sep between start and end
RangesAccepted(sep) ==
    \A rs \in RangeLists, j \in Joins :
        (ppc = "returned" /\ str = FormatSlices(rs, sep, j))
            => (parsed = TRUE /\ slices = rs)

\* C15: for every "frames" string of the form <start>..<end>[, <start>..<end>]
\* parse_slices returns true and has appended, in order, one CacheSlice per
\* range with the given start and end.
C15_TooltipRangesAccepted == RangesAccepted(<<".", ".">>)

\* the ranges are accepted when written <start>-<end>[, <start>-<end>]
C15_DashRangesAccepted == RangesAccepted(<<"-">>)

\* parse_slices has returned on two ranges written as the description of the
\* property says
C15_Witness ==
    /\ ppc = "returned"
    /\ str = FormatSlices(<<[start |-> 0, end |-> 12], [start |-> -3, end |-> 0]>>,
                          <<".", ".">>, <<",", " ">>)

(***************************************************************************)
(* cache_library_bake_start, cache_library_bake_do, cache_library_bake_end *)
(***************************************************************************)
MaxPsys == 2

\* the frame loop of the model is cut off after this many samples
MaxSamples == 4

\* INT_MAX and INT_MIN
IntMax == (Pow2(IntBits - 2) - 1) * 2 + 1

IntMin == -IntMax - 1

\* <<start_frame, end_frame, what the build makes of the overflow of frame++>>
FrameRuns ==
    {<<1, 3, "wrap">>, <<3, 1, "wrap">>, <<0, 0, "wide">>, <<-1, 1, "wide">>,
     <<IntMin, IntMin + 1, "wrap">>, <<IntMax, IntMax, "wrap">>,
     <<IntMax - 1, IntMax, "wrap">>, <<IntMax - 1, IntMax, "wide">>}

\* <<scene->r.cfra, scene->r.framelen, cachelib->source_mode,
\*   the flags of the first particle system's point cache, cachelib->flag>>
SceneRuns ==
    {<<1, F1, "CACHE_LIBRARY_SOURCE_SCENE", {}, {}>>,
     <<7, FHalf, "CACHE_LIBRARY_SOURCE_CACHE", {"PTCACHE_BAKED"},
       {"CACHE_LIBRARY_OTHER"}>>,
     <<7, FromInt(2), "CACHE_LIBRARY_SOURCE_SCENE", {"PTCACHE_BAKING"}, {}>>,
     <<1, FHalf, "neither", {}, {}>>}

\* the calls of cache_library_bake_do that lines 394-404 make
Passes(mode) ==
    (IF "CACHELIBRARY_BAKE_PREVIEW" \in mode THEN <<"preview">> ELSE <<>>)
        \o (IF "CACHELIBRARY_BAKE_RENDER" \in mode THEN <<"render">> ELSE <<>>)

cache_library_bake_stop == stop \/ is_break

cache_library_bake_set_particle_baking(flags, baking) ==
    [i \in DOMAIN flags |->
        IF baking THEN flags[i] \cup {"PTCACHE_BAKING"}
        ELSE flags[i] \ {"PTCACHE_BAKING"}]

\* the state after cache_library_bake_init; in direct execution the job data
\* is an uninitialised local
BakeInit ==
    /\ bpc = "start"
    /\ use_job \in BOOLEAN
    /\ eval_mode \in SUBSET {"CACHELIBRARY_BAKE_PREVIEW", "CACHELIBRARY_BAKE_RENDER"}
    /\ \E fr \in FrameRuns :
          start_frame = fr[1] /\ end_frame = fr[2] /\ overflow = fr[3]
    /\ \E sc \in SceneRuns :
          /\ cfra = sc[1] /\ framelen = sc[2] /\ source_mode = sc[3]
          /\ psys_flag = [i \in 1..MaxPsys |-> IF i = 1 THEN sc[4] ELSE {}]
          /\ cachelib_flag = sc[5]
    /\ todo = <<>> /\ stop = FALSE /\ is_break = FALSE
    /\ origfra = 0 /\ origframelen = FZero
    /\ archive = (IF use_job THEN "NULL" ELSE "garbage")
    /\ writer = (IF use_job THEN "NULL" ELSE "garbage")
    /\ dupcache = "none"
    /\ frame = 0 /\ frame_prev = 0 /\ frame_wide = FALSE
    /\ entered = [cfra |-> cfra, framelen |-> framelen,
                  cachelib_flag |-> cachelib_flag, psys_flag |-> psys_flag]
    /\ samples = <<>> /\ returns = <<>> /\ dup_frees = 0
    /\ freed_invalid = FALSE
    /\ ParseIdle
    /\ FilterIdle
    /\ NoPass

\* the stop flag of the job or G.is_break is raised while the bake runs
RequestStop ==
    /\ bpc \in {"start", "do_enter", "loop", "break", "cleanup"}
    /\ \/ use_job /\ ~stop /\ stop' = TRUE /\ UNCHANGED is_break
       \/ ~is_break /\ is_break' = TRUE /\ UNCHANGED stop
    /\ UNCHANGED <<bpc, bakeInputs, todo, cfra, framelen, origfra, origframelen,
                   archive, writer, cachelib_flag, psys_flag, dupcache, frame,
                   frame_prev, frame_wide, entered, samples, returns,
                   dup_frees, freed_invalid, parseVars, filterVars>>

\* lines 375-392 with origframelen read after line 381
BakeStart_saves_after_set ==
    /\ bpc = "start"
    /\ origfra' = cfra
    /\ framelen' = F1
    /\ origframelen' = F1
    /\ entered' = [entered EXCEPT !.cfra = cfra, !.framelen = framelen]
    /\ \E opened \in BOOLEAN :
          IF opened
          THEN /\ archive' = "open"
               /\ is_break' = FALSE
               /\ todo' = Passes(eval_mode)
               /\ bpc' = IF Passes(eval_mode) = <<>> THEN "start_exit" ELSE "do_enter"
          ELSE /\ archive' = "NULL"
               /\ todo' = <<>>
               /\ bpc' = "start_exit"
               /\ UNCHANGED is_break
    /\ UNCHANGED <<bakeInputs, stop, cfra, writer, cachelib_flag, psys_flag,
                   dupcache, frame, frame_prev, frame_wide, samples, returns,
                   dup_frees, freed_invalid, parseVars, filterVars>>

\* lines 375-392: cache_library_bake_start up to the calls of
\* cache_library_bake_do
BakeStart ==
    /\ bpc = "start"
    /\ origfra' = cfra
    /\ origframelen' = framelen
    /\ framelen' = F1
    /\ entered' = [entered EXCEPT !.cfra = cfra, !.framelen = framelen]
    /\ \E opened \in BOOLEAN :
          IF opened
          THEN /\ archive' = "open"
               /\ is_break' = FALSE
               /\ todo' = Passes(eval_mode)
               /\ bpc' = IF Passes(eval_mode) = <<>> THEN "start_exit" ELSE "do_enter"
          ELSE /\ archive' = "NULL"
               /\ todo' = <<>>
               /\ bpc' = "start_exit"
               /\ UNCHANGED is_break
    /\ UNCHANGED <<bakeInputs, stop, cfra, writer, cachelib_flag, psys_flag,
                   dupcache, frame, frame_prev, frame_wide, samples, returns,
                   dup_frees, freed_invalid, parseVars, filterVars>>

\* what cache_library_bake_do finds on entry
EnteredDo ==
    [entered EXCEPT !.cachelib_flag = cachelib_flag, !.psys_flag = psys_flag]

\* cache_library_bake_do returns to cache_library_bake_start
BakeDoReturn(how, ent, lib, psys, allocs, frees) ==
    /\ returns' = Append(returns,
           [how |-> how, cachelib_flag |-> lib, psys_flag |-> psys,
            allocs |-> allocs, frees |-> frees, samples |-> samples,
            stopped |-> cache_library_bake_stop,
            freed |-> IF how \in {"done", "break"} THEN writer ELSE "none",
            clear_on_entry |->
                /\ "CACHE_LIBRARY_BAKING" \notin ent.cachelib_flag
                /\ \A i \in DOMAIN psys :
                       "PTCACHE_BAKING" \notin ent.psys_flag[i]])
    /\ todo' = Tail(todo)
    /\ bpc' = IF Tail(todo) = <<>> THEN "start_exit" ELSE "do_enter"

\* lines 264-265: stop was requested before the call
BakeDoStopped ==
    /\ bpc = "do_enter"
    /\ cache_library_bake_stop
    /\ entered' = EnteredDo
    /\ samples' = <<>>
    /\ dup_frees' = 0
    /\ BakeDoReturn("stop_on_entry", EnteredDo, cachelib_flag, psys_flag, 0, 0)
    /\ UNCHANGED <<bakeInputs, stop, is_break, cfra, framelen, origfra,
                   origframelen, archive, writer, cachelib_flag, psys_flag,
                   dupcache, frame, frame_prev, frame_wide, freed_invalid,
                   parseVars, filterVars>>

\* source_mode is one of the cases of the switch of lines 273-280
SourceKnown ==
    source_mode \in {"CACHE_LIBRARY_SOURCE_SCENE", "CACHE_LIBRARY_SOURCE_CACHE"}

\* what line 281 can find in data->writer: the result of the creation, or,
\* when no case matched, what was there before the call (a pointer never
\* assigned holds whatever the stack held)
WriterAfterSwitch ==
    IF SourceKnown THEN {"NULL", "valid"}
    ELSE IF writer = "garbage" THEN {"NULL", "garbage"}
    ELSE {writer}

\* lines 264-284: data->writer is NULL after the switch
BakeDoNoWriter ==
    /\ bpc = "do_enter"
    /\ ~cache_library_bake_stop
    /\ "NULL" \in WriterAfterSwitch
    /\ entered' = EnteredDo
    /\ samples' = <<>>
    /\ writer' = "NULL"
    /\ dupcache' = "freed"
    /\ dup_frees' = 1
    /\ BakeDoReturn("no_writer", EnteredDo, cachelib_flag, psys_flag, 1, 1)
    /\ UNCHANGED <<bakeInputs, stop, is_break, cfra, framelen, origfra,
                   origframelen, archive, cachelib_flag, psys_flag,
                   frame, frame_prev, frame_wide, freed_invalid,
                   parseVars, filterVars>>

\* lines 264-296: data->writer is not NULL after the switch, up to the first
\* test of the loop
BakeDoPrepare ==
    /\ bpc = "do_enter"
    /\ ~cache_library_bake_stop
    /\ entered' = EnteredDo
    /\ samples' = <<>>
    /\ writer' \in WriterAfterSwitch \ {"NULL"}
    /\ dupcache' = "allocated"
    /\ dup_frees' = 0
    /\ cachelib_flag' = cachelib_flag \cup {"CACHE_LIBRARY_BAKING"}
    /\ frame' = start_frame
    /\ frame_prev' = start_frame
    /\ frame_wide' = FALSE
    /\ bpc' = "loop"
    /\ UNCHANGED <<bakeInputs, todo, stop, is_break, cfra, framelen, origfra,
                   origframelen, archive, psys_flag, returns, freed_invalid,
                   parseVars, filterVars>>

\* the loop test of line 296
FrameInRange == ~frame_wide /\ frame <= end_frame

\* lines 296-325: one frame of the loop, with the frame_prev = frame++ that
\* follows it unless the loop is left by break; the progress report of lines
\* 295 and 323 changes nothing the bake reads and is left out
BakeFrame ==
    /\ bpc = "loop"
    /\ FrameInRange
    /\ Len(samples) < MaxSamples
    /\ psys_flag' = cache_library_bake_set_particle_baking(
                        psys_flag, frame # start_frame)
    /\ cfra' = frame
    /\ samples' = Append(samples, <<frame, frame_prev>>)
    /\ IF cache_library_bake_stop
       THEN /\ bpc' = "break"
            /\ UNCHANGED <<frame, frame_prev, frame_wide>>
       ELSE /\ frame_prev' = frame
            /\ IF frame < IntMax
               THEN frame' = frame + 1 /\ frame_wide' = FALSE
               ELSE IF overflow = "wrap"
                    THEN frame' = IntMin /\ frame_wide' = FALSE
                    ELSE frame' = frame /\ frame_wide' = TRUE
            /\ UNCHANGED bpc
    /\ UNCHANGED <<bakeInputs, todo, stop, is_break, framelen, origfra,
                   origframelen, archive, writer, cachelib_flag, dupcache,
                   entered, returns, dup_frees, freed_invalid, parseVars,
                   filterVars>>

\* line 296: the loop test fails
BakeLoopExit ==
    /\ bpc = "loop"
    /\ ~FrameInRange
    /\ bpc' = "cleanup"
    /\ UNCHANGED <<bakeInputs, todo, stop, is_break, cfra, framelen, origfra,
                   origframelen, archive, writer, cachelib_flag, psys_flag,
                   dupcache, frame, frame_prev, frame_wide, entered, samples,
                   returns, dup_frees, freed_invalid, parseVars, filterVars>>

\* lines 330-338 without line 336
BakeDoCleanup_keeps_particle_baking ==
    /\ bpc \in {"cleanup", "break"}
    /\ writer' = "NULL"
    /\ cachelib_flag' = cachelib_flag \ {"CACHE_LIBRARY_BAKING"}
    /\ dupcache' = "freed"
    /\ dup_frees' = dup_frees + 1
    /\ freed_invalid' = (freed_invalid \/ writer = "garbage")
    /\ BakeDoReturn(IF bpc = "break" THEN "break" ELSE "done", entered,
                    cachelib_flag', psys_flag, 1, dup_frees')
    /\ UNCHANGED <<bakeInputs, stop, is_break, cfra, framelen, origfra,
                   origframelen, archive, psys_flag, frame, frame_prev,
                   frame_wide, entered, samples, parseVars, filterVars>>

\* lines 330-338: the cleanup of cache_library_bake_do
BakeDoCleanup ==
    /\ bpc \in {"cleanup", "break"}
    /\ writer' = "NULL"
    /\ cachelib_flag' = cachelib_flag \ {"CACHE_LIBRARY_BAKING"}
    /\ psys_flag' = cache_library_bake_set_particle_baking(psys_flag, FALSE)
    /\ dupcache' = "freed"
    /\ dup_frees' = dup_frees + 1
    /\ freed_invalid' = (freed_invalid \/ writer = "garbage")
    /\ BakeDoReturn(IF bpc = "break" THEN "break" ELSE "done", entered,
                    cachelib_flag', psys_flag', 1, dup_frees')
    /\ UNCHANGED <<bakeInputs, stop, is_break, cfra, framelen, origfra,
                   origframelen, archive, frame, frame_prev, frame_wide,
                   entered, samples, parseVars, filterVars>>

\* lines 288, 321, 331: PTC_writer_init, PTC_write_sample or PTC_writer_free
\* of a pointer that is no writer ends the process
BakeDoCrash ==
    /\ bpc \in {"loop", "break", "cleanup"}
    /\ writer = "garbage"
    /\ bpc' = "crashed"
    /\ UNCHANGED <<bakeInputs, todo, stop, is_break, cfra, framelen, origfra,
                   origframelen, archive, writer, cachelib_flag, psys_flag,
                   dupcache, frame, frame_prev, frame_wide, entered, samples,
                   returns, dup_frees, freed_invalid, parseVars, filterVars>>

\* lines 408-409
BakeStartExit ==
    /\ bpc = "start_exit"
    /\ stop' = FALSE
    /\ bpc' = "end"
    /\ UNCHANGED <<bakeInputs, todo, is_break, cfra, framelen, origfra,
                   origframelen, archive, writer, cachelib_flag, psys_flag,
                   dupcache, frame, frame_prev, frame_wide, entered, samples,
                   returns, dup_frees, freed_invalid, parseVars, filterVars>>

\* what line 420 reads: a pointer never assigned holds whatever the stack held
WriterAtEnd ==
    IF writer = "garbage" THEN {"NULL", "garbage"} ELSE {writer}

\* lines 417-428: cache_library_bake_end; PTC_writer_free of a pointer that
\* is no writer either goes unnoticed or ends the process (BakeEndCrash)
BakeEnd ==
    /\ bpc = "end"
    /\ \E wr_seen \in WriterAtEnd :
          /\ freed_invalid' = (freed_invalid \/ wr_seen = "garbage")
          /\ writer' = IF wr_seen = "valid" THEN "freed" ELSE writer
    /\ archive' = IF archive = "open" THEN "closed" ELSE archive
    /\ cfra' = origfra
    /\ framelen' = origframelen
    /\ bpc' = "ended"
    /\ UNCHANGED <<bakeInputs, todo, stop, is_break, origfra, origframelen,
                   cachelib_flag, psys_flag, dupcache, frame, frame_prev,
                   frame_wide, entered, samples, returns, dup_frees,
                   parseVars, filterVars>>

\* lines 420-421: PTC_writer_free of a pointer that is no writer ends the
\* process
BakeEndCrash ==
    /\ bpc = "end"
    /\ writer = "garbage"
    /\ freed_invalid' = TRUE
    /\ bpc' = "crashed"
    /\ UNCHANGED <<bakeInputs, todo, stop, is_break, cfra, framelen, origfra,
                   origframelen, archive, writer, cachelib_flag, psys_flag,
                   dupcache, frame, frame_prev, frame_wide, entered, samples,
                   returns, dup_frees, parseVars, filterVars>>

BakeNext ==
    \/ RequestStop
    \/ BakeStart
    \/ BakeDoStopped
    \/ BakeDoNoWriter
    \/ BakeDoPrepare
    \/ BakeFrame
    \/ BakeLoopExit
    \/ BakeDoCleanup
    \/ BakeDoCrash
    \/ BakeStartExit
    \/ BakeEnd
    \/ BakeEndCrash

SpecBake == BakeInit /\ [][BakeNext]_vars

(***************************************************************************)
(* Properties of a bake                                                    *)
(***************************************************************************)
\* C16: after cache_library_bake_start followed by cache_library_bake_end,
\* scene->r.cfra and scene->r.framelen have the values they had when
\* cache_library_bake_start began, whatever happened in between.
C16_SceneFrameRestored ==
    bpc = "ended" => (cfra = entered.cfra /\ framelen = entered.framelen)

\* both passes were called, the first baked frames until it was stopped; the
\* frame length was not 1 and the frame none of the baked ones
C16_Witness ==
    /\ bpc = "ended"
    /\ Len(returns) = 2
    /\ returns[1].how = "break"
    /\ Len(returns[1].samples) >= 2
    /\ \A i \in 1..Len(returns[1].samples) : returns[1].samples[i][1] # cfra
    /\ framelen = FHalf

\* the archive could not be opened
C16_WitnessNoArchive ==
    bpc = "ended" /\ archive = "NULL" /\ framelen = FHalf /\ cfra = 7

\* the number of frames from start_frame to end_frame
FrameCount == IF end_frame < start_frame THEN 0 ELSE end_frame - start_frame + 1

\* the samples are those of start_frame, start_frame + 1, ... in this order,
\* frame_prev the frame itself for the first and frame - 1 afterwards
SamplesAscending(ss) ==
    \A i \in 1..Len(ss) :
        IF i = 1 THEN ss[1] = <<start_frame, start_frame>>
        ELSE /\ ss[i - 1][1] < IntMax
             /\ ss[i][1] = ss[i - 1][1] + 1
             /\ ss[i][2] = ss[i - 1][1]

FramesInOrder ==
    /\ bpc \in {"loop", "break", "cleanup"} =>
          /\ SamplesAscending(samples)
          /\ Len(samples) <= FrameCount
    /\ bpc = "break" => Len(samples) >= 1
    /\ bpc = "cleanup" => Len(samples) = FrameCount
    /\ \A i \in 1..Len(returns) :
          (returns[i].how = "done" /\ ~returns[i].stopped)
              => Len(returns[i].samples) = FrameCount

\* C19: once a writer was created, cache_library_bake_do processes the frames
\* start_frame, start_frame + 1, ... in strictly ascending order, each at
\* most once, with one PTC_write_sample per frame and frame_prev the frame
\* itself at first and frame - 1 afterwards; the stop flag is tested only
\* after a sample was written; a run never stopped writes exactly
\* end_frame - start_frame + 1 samples (none if end_frame < start_frame), and
\* the loop ends after at most that many frames, for every start_frame and
\* end_frame of the int range.
C19_FramesInOrder == FramesInOrder

\* the same for end_frame < INT_MAX, and for end_frame = INT_MAX in a build
\* that keeps frame in a register wider than int
C19_FramesInOrderUnlessWrapped ==
    (end_frame < IntMax \/ overflow = "wide") => FramesInOrder

\* the frame INT_MAX was written and the loop went on
C19_Witness ==
    /\ bpc = "loop"
    /\ end_frame = IntMax
    /\ Len(samples) >= 2
    /\ samples[Len(samples)][1] = IntMax

\* C20: whenever cache_library_bake_do returns, with CACHE_LIBRARY_BAKING and
\* every PTCACHE_BAKING clear on entry, CACHE_LIBRARY_BAKING is clear and no
\* particle system's point cache has PTCACHE_BAKING set, and the dupli cache
\* the call allocated has been freed exactly once.
C20_FlagsClearCacheFreed ==
    \A i \in 1..Len(returns) :
        LET rt == returns[i]
        IN /\ rt.clear_on_entry =>
                 /\ "CACHE_LIBRARY_BAKING" \notin rt.cachelib_flag
                 /\ \A k \in DOMAIN rt.psys_flag :
                        "PTCACHE_BAKING" \notin rt.psys_flag[k]
           /\ rt.frees = rt.allocs
           /\ rt.allocs = (IF rt.how = "stop_on_entry" THEN 0 ELSE 1)
           /\ (/\ i = Len(returns)
               /\ bpc \notin {"loop", "break", "cleanup"}
               /\ rt.allocs = 1) => dupcache = "freed"

\* a call returned after several frames, with the particle systems marked
\* as baking from the second frame on, and another because no writer
\* could be created
C20_Witness ==
    /\ Len(returns) = 2
    /\ returns[1].how \in {"done", "break"}
    /\ returns[1].clear_on_entry
    /\ Len(returns[1].samples) >= 2
    /\ returns[2].how = "no_writer"

\* the pointer the tests of lines 281, 330 and 420 and the calls of
\* PTC_writer_free find is NULL or a live writer, nothing else was freed, and
\* no writer is left once cache_library_bake_end returned
WriterNullOrValid ==
    /\ bpc \in {"break", "cleanup", "end"} => writer \in {"NULL", "valid"}
    /\ (bpc = "do_enter" /\ ~SourceKnown /\ ~cache_library_bake_stop) =>
           writer \in {"NULL", "valid"}
    /\ ~freed_invalid
    /\ \A i \in 1..Len(returns) : returns[i].freed \in {"none", "valid"}
    /\ bpc \in {"do_enter", "start_exit", "end", "ended"} => writer # "valid"
    /\ bpc # "crashed"

\* C21: across cache_library_bake_init, cache_library_bake_start and
\* cache_library_bake_end, in job mode and in direct blocking mode,
\* PTC_writer_free and the tests of data->writer only ever see a pointer that
\* is NULL or a writer created by cache_library_bake_do and not yet freed:
\* every created writer is freed exactly once and nothing else is freed, also
\* when the archive cannot be opened, stop is already set, or source_mode
\* matches neither case of the switch.
C21_WriterNullOrValid == WriterNullOrValid

\* the same with the job data allocated zeroed (job mode)
C21_WriterNullOrValidInJob == use_job => WriterNullOrValid

\* direct execution reached cache_library_bake_end with the archive not
\* opened: data->writer was never assigned
C21_Witness ==
    /\ ~use_job
    /\ bpc = "end"
    /\ archive = "NULL"
    /\ returns = <<>>
    /\ writer = "garbage"

\* in job mode a bake ended after two calls that each created and freed a
\* writer
C21_WitnessJob ==
    /\ use_job
    /\ bpc = "ended"
    /\ Len(returns) = 2
    /\ returns[1].freed = "valid"
    /\ returns[2].freed = "valid"

\* in job mode a bake ended after a call whose source_mode matched neither
\* case
C21_WitnessJobSwitch ==
    /\ use_job
    /\ ~SourceKnown
    /\ bpc = "ended"
    /\ returns # <<>>
    /\ returns[1].how = "no_writer"

\* direct execution, source_mode matching neither case: the never-assigned
\* pointer was taken for a writer and handed to PTC_writer_free at line 331
C21_WitnessSwitch ==
    /\ ~use_job
    /\ ~SourceKnown
    /\ returns # <<>>
    /\ returns[1].freed = "garbage"
====
